---- MODULE Spec2Model ----
(***************************************************************************)
(* Model of the geometry correspondence and colour matching core of        *)
(* shapeshift-labs-vis: scripts/precompute-models (reorderToNearest,       *)
(* adjustVertexCount, main), src/lib/colors.ts (nearest colour lookup,     *)
(* palette pairing, palette interpolation).                                *)
(*                                                                         *)
(* Position arrays are flat sequences of numbers, three per vertex, read   *)
(* with the 0-based index of the source (At).  Coordinates are integers,   *)
(* which a Float32Array holds exactly.                                     *)
(***************************************************************************)
EXTENDS Integers, Sequences, FiniteSets, TLC

VARIABLES
  \* one run of reorderToNearest
  rPc,                 \* "idle" | "entry" | "bounds" | "loop" | "returned" | "thrown"
  referencePositions,  \* argument
  targetPositions,     \* argument
  grid,                \* minX, minY, minZ, maxDim of the union bounding box, or "none"
  buckets,             \* Map: cell key -> array of target indices
  available,           \* array of booleans
  reordered,           \* the result array, or "none" before it is allocated
  assigned,            \* nearestIdx of each finished iteration (history of the local)
  rI,                  \* loop variable i of the main loop
  \* one call of adjustVertexCount
  aPc,                 \* "idle" | "entry" | "returned"
  aPositions,          \* the argument array, as it is now
  aPositionsAtCall,    \* what the argument array held when the call was made
  aFinalCount,         \* argument
  adjustedPositions,   \* the returned array, or "none"
  \* one run of main (the geometry batch)
  mPc,                 \* "idle" | "start" | "load" | "align" | "bin" | "meta" | "manifest" | "done" | "exit1"
  glbFiles,            \* the .glb entries of the input directory
  loaded,              \* array of {name, positions}
  targetVertexCount,   \* the shared vertex count, 0 before it is computed
  processed,           \* array of {name, positions}
  manifest,            \* the manifest object being filled, or "none"
  files,               \* the files this run has written, in order
  mI,                  \* index of the model being aligned or written
  \* one call of findClosestColorIndex, ...AB or ...L
  cPc,                 \* "idle" | "entry" | "returned"
  cVariant,            \* which of the three was called: "full" | "ab" | "l" | "none"
  labColor,            \* argument
  paletteLab,          \* argument
  closestIndex,        \* the returned index
  \* one call of sortColorsByPairing
  pPc,                 \* "idle" | "entry" | "returned" | "thrown"
  colors1,             \* argument
  colors2,             \* argument
  results,             \* what munkres returned: array of [row, column]
  sortedColors,        \* the returned array
  \* one call of interpolatePalette
  iPc,                 \* "idle" | "entry" | "returned" | "thrown"
  palette1,            \* argument
  palette2,            \* argument
  blend,               \* argument i, the blend factor, as <<numerator, denominator>>
  newPalette,          \* the returned array
  \* one call of trimBottomRow
  tPc,                 \* "idle" | "entry" | "returned"
  trimPositions,       \* argument
  trimmed,             \* the returned array
  \* one call of normalizePositions
  nPc,                 \* "idle" | "entry" | "returned"
  normPositions,       \* argument
  normalized,          \* the returned array, as numerators over a denominator
  \* one run of main of generate-palettes (the palette batch)
  gPc,                 \* "idle" | "start" | "loop" | "done" | "exit1"
  imageFiles,          \* the sorted .jpg / .jpeg names of the input directory
  gI,                  \* how many of imageFiles the loop has handled
  result,              \* the object being filled: filename -> palette
  extracted,           \* per handled image, whether its extraction succeeded (history)
  palettesJson,        \* palettes.json: whether this run wrote it, and what
  \* one conversion: rgbToLab and back through labToRgb, or labToRgb alone
  kPc,                 \* "idle" | "entry" | "lab" | "returned"
  convFrom,            \* what the conversion starts from: "rgb" | "lab" | "none"
  convRgb,             \* argument of rgbToLab
  convLab,             \* result of rgbToLab, argument of labToRgb
  convBack,            \* result of labToRgb
  \* one call of clampPositions
  qPc,                 \* "idle" | "entry" | "returned"
  clampArg,            \* argument positions
  maxVertices,         \* argument
  clamped,             \* the returned array
  \* one call of alignBottoms
  bPc,                 \* "idle" | "entry" | "returned"
  alignTargets,        \* the argument: an array of clouds, as it is now
  alignTargetsAtCall,  \* what the argument held when the call was made
  alignedTargets,      \* the returned array of clouds
  \* the page of page.jsx: loadModels and the animation frames after it
  lPc,                 \* "idle" | "start" | "fetched" | "done" | "returned"
  manifestModels,      \* the names of data.models, in manifest order
  valid,               \* the fetched models {name, positions}, failures dropped
  morphTargets,        \* array of clouds
  morphNames,          \* morphNamesRef.current
  currentTargetIndex,  \* index of the source of the running morph
  morphTime,           \* ms into the running morph
  lastTimestamp,       \* "null" or "set"
  shownName,           \* the name last given to setBarcodeForModel, or "none"
  completed,           \* whether the last frame completed a morph (history)
  \* the animation frames of the page of part_001, after its loadModels
  hPc,                 \* "idle" | "run"
  numTargetsTs,          \* morphTargets.length
  currentTargetIndexTs,\* currentTargetIndex of part_001
  morphTimeTs,         \* morphTime of part_001, ms
  effectiveDuration,   \* the duration the last frame used, 0 before the first
  lastDelta,           \* cappedDelta of the last frame (history)
  steppedTs,           \* the local stepped of the last updateMorphing (history)
  \* the palette effects of page.tsx: loadPalettes and the render loop
  wPc,                 \* "idle" | "start" | "none" | "running" | "thrown"
  paletteValues,       \* Object.values of palettes.json
  palettes,            \* the state palettes
  startTime,           \* "null" or "set"
  elapsed,             \* timestamp - startTime of the last frame, ms
  blended,             \* the palette the last frame set, <<>> before the first
  baseIndex            \* baseIndex of the last frame (history)

rVars == <<rPc, referencePositions, targetPositions, grid, buckets, available,
           reordered, assigned, rI>>

aVars == <<aPc, aPositions, aPositionsAtCall, aFinalCount, adjustedPositions>>

mVars == <<mPc, glbFiles, loaded, targetVertexCount, processed, manifest, files, mI>>

cVars == <<cPc, cVariant, labColor, paletteLab, closestIndex>>

pVars == <<pPc, colors1, colors2, results, sortedColors>>

iVars == <<iPc, palette1, palette2, blend, newPalette>>

tVars == <<tPc, trimPositions, trimmed>>

nVars == <<nPc, normPositions, normalized>>

gVars == <<gPc, imageFiles, gI, result, extracted, palettesJson>>

kVars == <<kPc, convFrom, convRgb, convLab, convBack>>

qVars == <<qPc, clampArg, maxVertices, clamped>>

bVars == <<bPc, alignTargets, alignTargetsAtCall, alignedTargets>>

lVars == <<lPc, manifestModels, valid, morphTargets, morphNames, currentTargetIndex, morphTime, lastTimestamp, shownName, completed>>

hVars == <<hPc, numTargetsTs, currentTargetIndexTs, morphTimeTs, effectiveDuration,
           lastDelta, steppedTs>>

wVars == <<wPc, paletteValues, palettes, startTime, elapsed, blended, baseIndex>>

vars == <<rVars, aVars, mVars, cVars, pVars, iVars, tVars, nVars, gVars,
          kVars, qVars, bVars, lVars, hVars, wVars>>

\* what the steps of one component leave alone: the other components
rOthers ==
  <<aVars, mVars, cVars, pVars, iVars, tVars, nVars, gVars, kVars, qVars,
    bVars, lVars, hVars, wVars>>
aOthers ==
  <<rVars, mVars, cVars, pVars, iVars, tVars, nVars, gVars, kVars, qVars,
    bVars, lVars, hVars, wVars>>
mOthers ==
  <<rVars, aVars, cVars, pVars, iVars, tVars, nVars, gVars, kVars, qVars,
    bVars, lVars, hVars, wVars>>
cOthers ==
  <<rVars, aVars, mVars, pVars, iVars, tVars, nVars, gVars, kVars, qVars,
    bVars, lVars, hVars, wVars>>
pOthers ==
  <<rVars, aVars, mVars, cVars, iVars, tVars, nVars, gVars, kVars, qVars,
    bVars, lVars, hVars, wVars>>
iOthers ==
  <<rVars, aVars, mVars, cVars, pVars, tVars, nVars, gVars, kVars, qVars,
    bVars, lVars, hVars, wVars>>
tOthers ==
  <<rVars, aVars, mVars, cVars, pVars, iVars, nVars, gVars, kVars, qVars,
    bVars, lVars, hVars, wVars>>
nOthers ==
  <<rVars, aVars, mVars, cVars, pVars, iVars, tVars, gVars, kVars, qVars,
    bVars, lVars, hVars, wVars>>
gOthers ==
  <<rVars, aVars, mVars, cVars, pVars, iVars, tVars, nVars, kVars, qVars,
    bVars, lVars, hVars, wVars>>
kOthers ==
  <<rVars, aVars, mVars, cVars, pVars, iVars, tVars, nVars, gVars, qVars,
    bVars, lVars, hVars, wVars>>
qOthers ==
  <<rVars, aVars, mVars, cVars, pVars, iVars, tVars, nVars, gVars, kVars,
    bVars, lVars, hVars, wVars>>
bOthers ==
  <<rVars, aVars, mVars, cVars, pVars, iVars, tVars, nVars, gVars, kVars,
    qVars, lVars, hVars, wVars>>
lOthers ==
  <<rVars, aVars, mVars, cVars, pVars, iVars, tVars, nVars, gVars, kVars,
    qVars, bVars, hVars, wVars>>
hOthers ==
  <<rVars, aVars, mVars, cVars, pVars, iVars, tVars, nVars, gVars, kVars,
    qVars, bVars, lVars, wVars>>
wOthers ==
  <<rVars, aVars, mVars, cVars, pVars, iVars, tVars, nVars, gVars, kVars,
    qVars, bVars, lVars, hVars>>

----------------------------------------------------------------------------
(* Bounds of the model *)

\* largest number of vertices of a cloud handed to reorderToNearest
MaxN == 3

\* the points the clouds of reorderToNearest are built from: two points one
\* cell apart when the third is present, and far apart (linear scan) otherwise
ReorderPoints == {<<0, 0, 0>>, <<0, 3, 0>>, <<40, 1, 0>>}

\* largest number of vertices of a cloud handed to adjustVertexCount, and the
\* largest finalCount
MaxAdjustLen == 3
MaxFinalCount == 4

\* the points the clouds of adjustVertexCount are built from
AdjustPoints == {<<1, 2, 3>>, <<4, 5, 6>>, <<7, 8, 9>>}

\* longest cloud handed to trimBottomRow, in vertices
MaxTrimLen == 3

\* the vertices of the clouds of trimBottomRow: heights 0, 1, 50 and 100, so
\* that a cloud spanning 0..100 has a vertex exactly at the threshold 1
TrimPoints == {<<0, 0, 0>>, <<1, 1, 0>>, <<2, 50, 0>>, <<3, 100, 0>>}

\* longest cloud handed to normalizePositions, in vertices
MaxNormLen == 3

\* the vertices of the clouds of normalizePositions
NormPoints == {<<0, 0, 0>>, <<4, 0, 0>>, <<1, 2, 6>>, <<-2, 5, 5>>}

\* largest number of images in the input directory of the palette batch
MaxImages == 3

\* what ColorThief.getPalette resolves with: arrays of [r, g, b] arrays
ThiefPalettes ==
  {<<(<<0, 0, 0>>)>>, <<(<<255, 255, 255>>), (<<255, 0, 0>>)>>}

\* largest number of .glb files in the input directory
MaxModels == 3

\* the points of the clouds loadGLB resolves with, and the longest such cloud
BatchPoints == {<<0, 0, 0>>, <<0, 3, 0>>}

\* longest candidate list handed to the findClosestColorIndex functions
MaxPaletteLab == 3

\* Lab colours of the nearest-colour lookups: the centre and the four corners
\* of a rhombus with diagonals 120 (along l) and 160 (along (a, b)).  All their
\* distances are even integers and the distances of their (a, b) parts are
\* integers: every Math.sqrt and every * 0.5 of the three distance formulas
\* is exact on them.
LabColors ==
  {[l |-> 0, a |-> 0, b |-> 0], [l |-> 60, a |-> 0, b |-> 0],
   [l |-> -60, a |-> 0, b |-> 0], [l |-> 0, a |-> 48, b |-> 64],
   [l |-> 0, a |-> -48, b |-> -64]}

\* largest palette handed to sortColorsByPairing
MaxPairing == 2

\* the colours of the palettes of sortColorsByPairing: black, white, red, blue
RGBColors ==
  {[r |-> 0, g |-> 0, b |-> 0], [r |-> 255, g |-> 255, b |-> 255],
   [r |-> 255, g |-> 0, b |-> 0], [r |-> 0, g |-> 0, b |-> 255]}

\* largest palette handed to interpolatePalette
MaxInterpLen == 2

\* the colours of the palettes of interpolatePalette
InterpColors ==
  {[r |-> 0, g |-> 0, b |-> 0], [r |-> 255, g |-> 255, b |-> 255],
   [r |-> 255, g |-> 0, b |-> 1]}

\* the blend factors, as <<numerator, denominator>>: 0, 1/4, 1/2, 3/4, 1 and,
\* outside [0, 1], -1/4 and 5/4.  With these c1 + (c2 - c1) * i is exact in
\* double arithmetic.
BlendFactors == {<<0, 1>>, <<1, 4>>, <<1, 2>>, <<3, 4>>, <<1, 1>>, <<-1, 4>>, <<5, 4>>}

\* largest number of vertices of a cloud handed to clampPositions, and the
\* largest cap
MaxClampLen == 5
MaxCap == 3
ClampPoints == {<<0, 0, 0>>, <<1, 2, 3>>}

\* largest number of points of a cloud handed to alignBottoms, and the largest
\* number of clouds; the number of height units in 1e-6
MaxAlignLen == 2
MaxAlignClouds == 2
UnitsPerMicro == 2
AlignPoints == {<<0, 0, 0>>, <<1, 1, 2>>, <<2, 2, 1>>}

\* largest number of models of a manifest; the models are named 1, 2, ...
MaxManifest == 3

\* ms per transition, the cap on a frame's delta, and the deltas of the frames
morphDurationBase == 4500
DeltaCap == 100
FrameDeltas == {0, 50, 100, 6000}

\* largest number of morph targets of the page of part_001, and the audio
\* levels of its frames, in tenths
MaxTargets == 3
AudioLevels == {0, 4, 10}

\* largest number of palettes of palettes.json, and the number of palette
\* morphs the frames of the render loop run through; ms per palette morph,
\* and the ms between two frames
MaxPalettes == 3
MaxCycles == 3
paletteMorphDuration == 10000
CycleFrameSteps == {2500, 5000}

----------------------------------------------------------------------------
(* Flat arrays *)

\* arr[k] of the source, k 0-based
At(arr, k) == arr[k + 1]

\* number of vertices of a flat array: positions.length / 3
VertCount(arr) == Len(arr) \div 3

RECURSIVE Flatten(_)
Flatten(ps) == IF ps = <<>> THEN <<>> ELSE Head(ps) \o Flatten(Tail(ps))

\* the vertex i of a flat array as a triple
PointAt(arr, i) == <<At(arr, i * 3), At(arr, i * 3 + 1), At(arr, i * 3 + 2)>>

CloudsOver(points, n) == {Flatten(ps) : ps \in [1..n -> points]}

MinOf(S) == CHOOSE m \in S : \A s \in S : m <= s
MaxOf(S) == CHOOSE m \in S : \A s \in S : m >= s

----------------------------------------------------------------------------
(* reorderToNearest *)

\* the search radius cap of findNearest, in cells
maxRadius == 2

\* cellSize = maxDim / GridDivisions
GridDivisions == 20

\* line 124: the precondition that makes reorderToNearest throw
LengthsDifferShorterOnly(ref, tgt) == Len(tgt) < Len(ref)
LengthsDiffer(ref, tgt) == Len(tgt) # Len(ref)

\* updateBounds over both arrays, and maxDim.  For two empty arrays the
\* source keeps +-Infinity, maxDim > 0 is false and no cell is ever computed:
\* the record then holds zeros that nothing reads.
Axis(arr, c) == {At(arr, i * 3 + c) : i \in 0..(VertCount(arr) - 1)}
UnionBounds(ref, tgt) ==
  LET xs == Axis(ref, 0) \cup Axis(tgt, 0)
      ys == Axis(ref, 1) \cup Axis(tgt, 1)
      zs == Axis(ref, 2) \cup Axis(tgt, 2)
  IN IF xs = {} THEN [minX |-> 0, minY |-> 0, minZ |-> 0, maxDim |-> 0]
     ELSE [minX |-> MinOf(xs), minY |-> MinOf(ys), minZ |-> MinOf(zs),
           maxDim |-> MaxOf({MaxOf(xs) - MinOf(xs), MaxOf(ys) - MinOf(ys),
                             MaxOf(zs) - MinOf(zs)})]

\* Math.floor((v - min) / cellSize), cellSize = maxDim > 0 ? maxDim / 20 : 1
CellIndex(v, min, g) ==
  IF g.maxDim > 0 THEN ((v - min) * GridDivisions) \div g.maxDim ELSE v - min

\* bucketKey of the cell of a point
CellOf(x, y, z, g) ==
  <<CellIndex(x, g.minX, g), CellIndex(y, g.minY, g), CellIndex(z, g.minZ, g)>>

\* buckets.get(key): the array, or the empty array for a missing key (the
\* source treats a missing bucket and an empty one alike)
BucketGet(b, key) == IF key \in DOMAIN b THEN b[key] ELSE <<>>

\* if (!buckets.has(key)) buckets.set(key, []); buckets.get(key).push(i)
BucketPush(b, key, i) ==
  [k \in (DOMAIN b) \cup {key} |-> IF k = key THEN Append(BucketGet(b, key), i) ELSE b[k]]

EmptyBuckets == [k \in {} |-> <<>>]

\* lines 154-164: bucket every target vertex, in index order
RECURSIVE BuildBuckets(_, _, _, _)
BuildBuckets(tgt, g, i, b) ==
  IF i >= VertCount(tgt) THEN b
  ELSE CHOOSE out \in
         {BuildBuckets(tgt, g, i + 1, nb)
          : nb \in {BucketPush(b, CellOf(p[1], p[2], p[3], g), i) : p \in {PointAt(tgt, i)}}} : TRUE

\* arr.indexOf(idx), 1-based here, 0 when absent
IndexOf(arr, idx) ==
  IF \E k \in 1..Len(arr) : arr[k] = idx
  THEN MinOf({k \in 1..Len(arr) : arr[k] = idx})
  ELSE 0

\* arr.splice(pos, 1)
Splice(arr, pos) == [k \in 1..(Len(arr) - 1) |-> IF k < pos THEN arr[k] ELSE arr[k + 1]]

\* lines 168-180
removeFromBucketNothing(b, tgt, g, idx) == b
removeFromBucket(b, tgt, g, idx) ==
  CHOOSE out \in
    {IF key \notin DOMAIN b THEN b
     ELSE IF IndexOf(b[key], idx) = 0 THEN b
     ELSE [b EXCEPT ![key] = Splice(@, IndexOf(@, idx))]
     : key \in {CellOf(p[1], p[2], p[3], g) : p \in {PointAt(tgt, idx)}}} : TRUE

\* lines 199, 216: if (!available[idx]) continue
IsCandidateAlways(av, idx) == TRUE
IsCandidate(av, idx) == av[idx + 1]

\* lines 200-203, 217-220
Dist2(tgt, idx, rx, ry, rz) ==
  (At(tgt, idx * 3) - rx) * (At(tgt, idx * 3) - rx)
  + (At(tgt, idx * 3 + 1) - ry) * (At(tgt, idx * 3 + 1) - ry)
  + (At(tgt, idx * 3 + 2) - rz) * (At(tgt, idx * 3 + 2) - rz)

\* bestIdx = -1 together with bestDist2 = Infinity
NoBest == [idx |-> -1, dist2 |-> 0]

\* lines 204, 221: if (dist2 < bestDist2), bestDist2 starting at Infinity
IsNearerOrEqual(d, best) == best.idx = -1 \/ d <= best.dist2
IsNearer(d, best) == best.idx = -1 \/ d < best.dist2

\* the inner loops' body over a sequence of indices in visiting order:
\* if (dist2 < bestDist2) { bestDist2 = dist2; bestIdx = idx; }
RECURSIVE Scan(_, _, _, _, _, _, _)
Scan(cands, best, tgt, av, rx, ry, rz) ==
  IF cands = <<>> THEN best
  ELSE LET idx == Head(cands)
           d == Dist2(tgt, idx, rx, ry, rz)
           nb == IF IsCandidate(av, idx) /\ IsNearer(d, best)
                 THEN [idx |-> idx, dist2 |-> d]
                 ELSE best
       IN CHOOSE out \in {Scan(Tail(cands), v, tgt, av, rx, ry, rz) : v \in {nb}} : TRUE

\* whether the three nested loops over dx, dy, dz in [-r, r] around cell c
\* visit the cell key, and its place in the order of the visit (dx outermost)
InCube(r, c, key) ==
  \A a \in 1..3 : key[a] - c[a] >= -r /\ key[a] - c[a] <= r
CubePos(r, c, key) ==
  LET w == 2 * r + 1
  IN (key[1] - c[1] + r) * w * w + (key[2] - c[2] + r) * w + (key[3] - c[3] + r)

\* the indices met by the three nested loops, bucket by bucket in loop order:
\* keys holds the visited cells that have a bucket and are still to come
RECURSIVE ConcatBuckets(_, _, _, _)
ConcatBuckets(b, r, c, keys) ==
  IF keys = {} THEN <<>>
  ELSE CHOOSE out \in
         {b[key] \o ConcatBuckets(b, r, c, keys \ {key})
          : key \in {CHOOSE k \in keys :
                       \A o \in keys : CubePos(r, c, k) <= CubePos(r, c, o)}} : TRUE

CubeCandidates(b, r, c) ==
  ConcatBuckets(b, r, c, {key \in DOMAIN b : InCube(r, c, key)})

\* for (let r = 0; r <= maxRadius && bestIdx === -1; r++)
RECURSIVE RingLoop(_, _, _, _, _, _, _, _, _, _)
RingLoop(r, best, b, tgt, av, rx, ry, rz, g, c) ==
  IF r > maxRadius \/ best.idx # -1 THEN best
  ELSE CHOOSE out \in
         {RingLoop(r + 1, v, b, tgt, av, rx, ry, rz, g, c)
          : v \in {Scan(CubeCandidates(b, r, c), best, tgt, av, rx, ry, rz)}} : TRUE

\* 0, 1, ..., n-1
RECURSIVE UpTo(_)
UpTo(n) == IF n <= 0 THEN <<>> ELSE Append(UpTo(n - 1), n - 1)

\* lines 182-229
findNearestRingOnly(rx, ry, rz, tgt, g, b, av) ==
  RingLoop(0, NoBest, b, tgt, av, rx, ry, rz, g, CellOf(rx, ry, rz, g)).idx
findNearest(rx, ry, rz, tgt, g, b, av) ==
  CHOOSE out \in
    {IF ringBest.idx = -1
     THEN Scan(UpTo(VertCount(tgt)), NoBest, tgt, av, rx, ry, rz).idx
     ELSE ringBest.idx
     : ringBest \in {RingLoop(0, NoBest, b, tgt, av, rx, ry, rz, g, c)
                      : c \in {CellOf(rx, ry, rz, g)}}} : TRUE

\* lines 242-244
WritePointXOnly(out, i, tgt, n) ==
  [k \in 1..Len(out) |->
     IF k - 1 \in {i * 3, i * 3 + 1, i * 3 + 2} THEN At(tgt, n * 3) ELSE out[k]]
WritePoint(out, i, tgt, n) ==
  [k \in 1..Len(out) |->
     IF k - 1 = i * 3 THEN At(tgt, n * 3)
     ELSE IF k - 1 = i * 3 + 1 THEN At(tgt, n * 3 + 1)
     ELSE IF k - 1 = i * 3 + 2 THEN At(tgt, n * 3 + 2)
     ELSE out[k]]

\* line 239: available[nearestIdx] = false
MarkTakenNot(av, idx) == av
MarkTaken(av, idx) == [av EXCEPT ![idx + 1] = FALSE]

\* line 231: the loop condition i < len
LoopContinuesBeforeLast(i, ref) == i + 1 < VertCount(ref)
LoopContinues(i, ref) == i < VertCount(ref)

\* new Float32Array(n): zeros
Zeros(n) == [k \in 1..n |-> 0]

\* In BuildBuckets, removeFromBucket, LoopBody, findNearest, RingLoop, Scan
\* and ConcatBuckets a local value is named by letting it range over a
\* singleton set, which has it computed once however often it is used:
\* CHOOSE out \in {e(v) : v \in {d}} : TRUE is e(d).  ReorderBuckets and
\* ReorderAssign name the loop state the same way, \E st \in {d} : A(st).

\* the state of the main loop after line 166
LoopStart(tgt, g) ==
  [buckets |-> BuildBuckets(tgt, g, 0, EmptyBuckets),
   available |-> [k \in 1..VertCount(tgt) |-> TRUE],
   reordered |-> Zeros(Len(tgt)),
   assigned |-> <<>>]

\* one iteration of the main loop, lines 232-244
LoopBody(ref, tgt, g, st, i) ==
  CHOOSE out \in
    {IF nearestIdx = -1
     THEN [st EXCEPT !.assigned = Append(@, -1)]
     ELSE [buckets |-> removeFromBucket(st.buckets, tgt, g, nearestIdx),
           available |-> MarkTaken(st.available, nearestIdx),
           reordered |-> WritePoint(st.reordered, i, tgt, nearestIdx),
           assigned |-> Append(st.assigned, nearestIdx)]
     : nearestIdx \in {findNearest(At(ref, i * 3), At(ref, i * 3 + 1), At(ref, i * 3 + 2),
                                   tgt, g, st.buckets, st.available)}} : TRUE

RECURSIVE MainLoop(_, _, _, _, _)
MainLoop(ref, tgt, g, st, i) ==
  IF i >= VertCount(ref) THEN st
  ELSE MainLoop(ref, tgt, g, LoopBody(ref, tgt, g, st, i), i + 1)

\* the whole function: whether it threw, and the returned array if not
reorderToNearest(ref, tgt) ==
  IF LengthsDiffer(ref, tgt) THEN [thrown |-> TRUE, value |-> <<>>]
  ELSE LET g == UnionBounds(ref, tgt)
       IN [thrown |-> FALSE,
           value |-> MainLoop(ref, tgt, g, LoopStart(tgt, g), 0).reordered]

(* one run of reorderToNearest, step by step *)

ReorderInputs == UNION {CloudsOver(ReorderPoints, n) : n \in 0..MaxN}

ReorderIdle ==
  /\ rPc = "idle"
  /\ referencePositions = <<>>
  /\ targetPositions = <<>>
  /\ grid = "none"
  /\ buckets = EmptyBuckets
  /\ available = <<>>
  /\ reordered = "none"
  /\ assigned = <<>>
  /\ rI = 0

ReorderStart ==
  /\ rPc = "entry"
  /\ referencePositions \in ReorderInputs
  /\ targetPositions \in ReorderInputs
  /\ grid = "none"
  /\ buckets = EmptyBuckets
  /\ available = <<>>
  /\ reordered = "none"
  /\ assigned = <<>>
  /\ rI = 0

\* lines 124-126
ReorderThrow ==
  /\ rPc = "entry"
  /\ LengthsDiffer(referencePositions, targetPositions)
  /\ rPc' = "thrown"
  /\ UNCHANGED <<referencePositions, targetPositions, grid, buckets, available,
                 reordered, assigned, rI>>
  /\ UNCHANGED rOthers

\* lines 128-148
ReorderBounds ==
  /\ rPc = "entry"
  /\ ~LengthsDiffer(referencePositions, targetPositions)
  /\ grid' = UnionBounds(referencePositions, targetPositions)
  /\ rPc' = "bounds"
  /\ UNCHANGED <<referencePositions, targetPositions, buckets, available,
                 reordered, assigned, rI>>
  /\ UNCHANGED rOthers

\* lines 150-166
ReorderBuckets ==
  /\ rPc = "bounds"
  /\ \E st \in {LoopStart(targetPositions, grid)} :
        /\ buckets' = st.buckets
        /\ available' = st.available
        /\ reordered' = st.reordered
        /\ assigned' = st.assigned
  /\ rI' = 0
  /\ rPc' = "loop"
  /\ UNCHANGED <<referencePositions, targetPositions, grid>>
  /\ UNCHANGED rOthers

\* lines 231-245, one iteration
ReorderAssign ==
  /\ rPc = "loop"
  /\ LoopContinues(rI, referencePositions)
  /\ \E st \in {LoopBody(referencePositions, targetPositions, grid,
                          [buckets |-> buckets, available |-> available,
                           reordered |-> reordered, assigned |-> assigned], rI)} :
        /\ buckets' = st.buckets
        /\ available' = st.available
        /\ reordered' = st.reordered
        /\ assigned' = st.assigned
  /\ rI' = rI + 1
  /\ UNCHANGED <<rPc, referencePositions, targetPositions, grid>>
  /\ UNCHANGED rOthers

\* line 247
ReorderReturn ==
  /\ rPc = "loop"
  /\ ~LoopContinues(rI, referencePositions)
  /\ rPc' = "returned"
  /\ UNCHANGED <<referencePositions, targetPositions, grid, buckets, available,
                 reordered, assigned, rI>>
  /\ UNCHANGED rOthers

ReorderNext ==
  \/ ReorderThrow
  \/ ReorderBounds
  \/ ReorderBuckets
  \/ ReorderAssign
  \/ ReorderReturn

----------------------------------------------------------------------------
(* adjustVertexCount *)

Min2(a, b) == IF a < b THEN a ELSE b

\* line 97
FinalLengthUnscaled(finalCount) == finalCount
FinalLength(finalCount) == finalCount * 3

\* arr[k] || 0: the element, or 0 for an index outside the array (undefined)
ReadOrZero(arr, k) == IF k >= 0 /\ k < Len(arr) THEN At(arr, k) ELSE 0

\* lines 107-116: the value the padding loop writes at index k; the loop
\* writes lastX, lastY, lastZ in turn starting at loadedVertices * 3
PadValueCyclic(copied, copyLength, k) ==
  IF copyLength > 0 THEN At(copied, (k - copyLength) % copyLength) ELSE 0
PadValue(copied, copyLength, k) ==
  LET lastX == ReadOrZero(copied, copyLength - 3)
      lastY == ReadOrZero(copied, copyLength - 2)
      lastZ == ReadOrZero(copied, copyLength - 1)
      c == (k - (copyLength \div 3) * 3) % 3
  IN IF c = 0 THEN lastX ELSE IF c = 1 THEN lastY ELSE lastZ

\* lines 96-120
adjustVertexCount(positions, finalCount) ==
  LET finalLength == FinalLength(finalCount)
      copyLength == Min2(Len(positions), finalLength)
      copied == [k \in 1..finalLength |-> IF k <= copyLength THEN positions[k] ELSE 0]
      loadedVertices == copyLength \div 3
  IN IF loadedVertices < finalCount
     THEN [k \in 1..finalLength |->
             IF k - 1 < loadedVertices * 3 THEN copied[k]
             ELSE PadValue(copied, copyLength, k - 1)]
     ELSE copied

AdjustInputs == UNION {CloudsOver(AdjustPoints, n) : n \in 0..MaxAdjustLen}

AdjustIdle ==
  /\ aPc = "idle"
  /\ aPositions = <<>>
  /\ aPositionsAtCall = <<>>
  /\ aFinalCount = 0
  /\ adjustedPositions = "none"

AdjustStart ==
  /\ aPc = "entry"
  /\ aPositions \in AdjustInputs
  /\ aPositionsAtCall = aPositions
  /\ aFinalCount \in 0..MaxFinalCount
  /\ adjustedPositions = "none"

\* the call: the function builds and returns a new array and writes nothing
\* to its argument
AdjustCall ==
  /\ aPc = "entry"
  /\ adjustedPositions' = adjustVertexCount(aPositions, aFinalCount)
  /\ aPc' = "returned"
  /\ UNCHANGED <<aPositions, aPositionsAtCall, aFinalCount>>
  /\ UNCHANGED aOthers

----------------------------------------------------------------------------
(* main: the geometry batch *)

\* what loadGLB can resolve with: a normalized, trimmed, clamped cloud of at
\* least one vertex
BatchClouds ==
  CloudsOver(BatchPoints, 1) \cup CloudsOver(BatchPoints, 2)
    \cup {Flatten(<<<<0, 3, 0>>, <<0, 0, 0>>, <<0, 3, 0>>>>)}

\* line 320: Math.max(...loaded.map((l) => l.positions.length / 3))
TargetVertexCountOfFirst(ls) == VertCount(ls[1].positions)
TargetVertexCount(ls) == MaxOf({VertCount(ls[k].positions) : k \in 1..Len(ls)})

\* lines 313-318: the for-of loop over glbFiles ends when every name has
\* been loaded
LoadLoopDoneAfterFirst(ls, fs) == Len(ls) >= 1
LoadLoopDone(ls, fs) == Len(ls) = Len(fs)

\* lines 323-328: reference, the equalized cloud of the first model, which
\* every call of reorderToNearest gets
ReferencePrevious(ps) == ps[Len(ps)].positions
Reference(ps) == ps[1].positions

\* lines 337-347: the for-of loop over processed ends when every model has
\* been written
WriteLoopDoneAfterFirst(i, ps) == i >= 1
WriteLoopDone(i, ps) == i >= Len(ps)

MainIdle ==
  /\ mPc = "idle"
  /\ glbFiles = <<>>
  /\ loaded = <<>>
  /\ targetVertexCount = 0
  /\ processed = <<>>
  /\ manifest = "none"
  /\ files = <<>>
  /\ mI = 0

MainStart ==
  /\ mPc = "start"
  /\ glbFiles = <<>>
  /\ loaded = <<>>
  /\ targetVertexCount = 0
  /\ processed = <<>>
  /\ manifest = "none"
  /\ files = <<>>
  /\ mI = 0

\* lines 303-310: the directory holds k >= 1 .glb files, named 1..k here
MainReaddir ==
  /\ mPc = "start"
  /\ \E k \in 1..MaxModels : glbFiles' = [f \in 1..k |-> f]
  /\ mPc' = "load"
  /\ UNCHANGED <<loaded, targetVertexCount, processed, manifest, files, mI>>
  /\ UNCHANGED mOthers

\* lines 303-308: no .glb file (or an unreadable directory): exit(1)
MainNoFiles ==
  /\ mPc = "start"
  /\ mPc' = "exit1"
  /\ UNCHANGED <<glbFiles, loaded, targetVertexCount, processed, manifest, files, mI>>
  /\ UNCHANGED mOthers

\* lines 313-318, one iteration in which loadGLB resolves
MainLoad ==
  /\ mPc = "load"
  /\ Len(loaded) < Len(glbFiles)
  /\ \E c \in BatchClouds :
       loaded' = Append(loaded, [name |-> glbFiles[Len(loaded) + 1], positions |-> c])
  /\ UNCHANGED <<mPc, glbFiles, targetVertexCount, processed, manifest, files, mI>>
  /\ UNCHANGED mOthers

\* lines 253, 287-290, 297: loadGLB rejects; main's catch (359-362) exits
MainLoadFail ==
  /\ mPc = "load"
  /\ Len(loaded) < Len(glbFiles)
  /\ mPc' = "exit1"
  /\ UNCHANGED <<glbFiles, loaded, targetVertexCount, processed, manifest, files, mI>>
  /\ UNCHANGED mOthers

\* lines 320-324
MainReference ==
  /\ mPc = "load"
  /\ LoadLoopDone(loaded, glbFiles)
  /\ targetVertexCount' = TargetVertexCount(loaded)
  /\ processed' = <<[name |-> loaded[1].name,
                      positions |-> adjustVertexCount(loaded[1].positions,
                                                      TargetVertexCount(loaded))]>>
  /\ mI' = 1
  /\ mPc' = "align"
  /\ UNCHANGED <<glbFiles, loaded, manifest, files>>
  /\ UNCHANGED mOthers

\* lines 326-330, one iteration; reference is processed[0].positions
MainAlign ==
  /\ mPc = "align"
  /\ mI < Len(loaded)
  /\ LET adjusted == adjustVertexCount(loaded[mI + 1].positions, targetVertexCount)
         aligned == reorderToNearest(Reference(processed), adjusted)
     IN IF aligned.thrown
        THEN mPc' = "exit1" /\ UNCHANGED <<processed, mI>>
        ELSE /\ processed' = Append(processed, [name |-> loaded[mI + 1].name,
                                                positions |-> aligned.value])
             /\ mI' = mI + 1
             /\ UNCHANGED mPc
  /\ UNCHANGED <<glbFiles, loaded, targetVertexCount, manifest, files>>
  /\ UNCHANGED mOthers

\* lines 332-335
MainManifest ==
  /\ mPc = "align"
  /\ mI >= Len(loaded)
  /\ manifest' = [vertexCount |-> targetVertexCount, models |-> <<>>]
  /\ mI' = 0
  /\ mPc' = "bin"
  /\ UNCHANGED <<glbFiles, loaded, targetVertexCount, processed, files>>
  /\ UNCHANGED mOthers

\* line 341: the blob of processed[mI]
MainWriteBin ==
  /\ mPc = "bin"
  /\ mI < Len(processed)
  /\ files' = Append(files, [kind |-> "bin", name |-> processed[mI + 1].name,
                               data |-> processed[mI + 1].positions])
  /\ mPc' = "meta"
  /\ UNCHANGED <<glbFiles, loaded, targetVertexCount, processed, manifest, mI>>
  /\ UNCHANGED mOthers

\* lines 342-346: the record of processed[mI], and its manifest entry
MainWriteMeta ==
  /\ mPc = "meta"
  /\ files' = Append(files, [kind |-> "meta", name |-> processed[mI + 1].name,
                               data |-> [name |-> processed[mI + 1].name,
                                         vertexCount |-> targetVertexCount]])
  /\ manifest' = [manifest EXCEPT !.models = Append(@, processed[mI + 1].name)]
  /\ mI' = mI + 1
  /\ mPc' = "bin"
  /\ UNCHANGED <<glbFiles, loaded, targetVertexCount, processed>>
  /\ UNCHANGED mOthers

\* lines 341, 342, 349: a writeFile rejects; main's catch (359-362) exits
MainWriteFail ==
  /\ mPc \in {"bin", "meta"}
  /\ mPc' = "exit1"
  /\ UNCHANGED <<glbFiles, loaded, targetVertexCount, processed, manifest, files, mI>>
  /\ UNCHANGED mOthers

\* lines 349-356
MainWriteManifest ==
  /\ mPc = "bin"
  /\ WriteLoopDone(mI, processed)
  /\ files' = Append(files, [kind |-> "manifest", name |-> 0, data |-> manifest])
  /\ mPc' = "done"
  /\ UNCHANGED <<glbFiles, loaded, targetVertexCount, processed, manifest, mI>>
  /\ UNCHANGED mOthers

MainNext ==
  \/ MainReaddir
  \/ MainNoFiles
  \/ MainLoad
  \/ MainLoadFail
  \/ MainReference
  \/ MainAlign
  \/ MainManifest
  \/ MainWriteBin
  \/ MainWriteMeta
  \/ MainWriteFail
  \/ MainWriteManifest

----------------------------------------------------------------------------
(* colors.ts: nearest colour lookup *)

SeqsOver(S, lo, hi) == UNION {[1..n -> S] : n \in lo..hi}

\* floor of the square root, by bisection
RECURSIVE IsqrtBetween(_, _, _)
IsqrtBetween(n, lo, hi) ==
  IF lo >= hi THEN lo
  ELSE LET mid == (lo + hi + 1) \div 2
       IN IF mid * mid <= n THEN IsqrtBetween(n, mid, hi) ELSE IsqrtBetween(n, lo, mid - 1)
Isqrt(n) == IsqrtBetween(n, 0, Min2(n, 46340))

\* Math.sqrt of a perfect square (no value otherwise)
MathSqrt(n) == CHOOSE r \in {Isqrt(n)} : r * r = n

\* distance * 0.5 of an even number (no value otherwise)
Half(n) == CHOOSE h \in {n \div 2} : h * 2 = n

Abs(x) == IF x < 0 THEN -x ELSE x

\* lines 12-16, 32-36, 60-64
LabDistance(c, p) ==
  MathSqrt((c.l - p.l) * (c.l - p.l) + (c.a - p.a) * (c.a - p.a) + (c.b - p.b) * (c.b - p.b))

\* lines 38-44
LabDistanceAB(c, p) ==
  Half(LabDistance(c, p)) + 2 * MathSqrt((c.a - p.a) * (c.a - p.a) + (c.b - p.b) * (c.b - p.b))

\* line 66
LabDistanceL(c, p) == Half(LabDistance(c, p)) + Abs(c.l - p.l)

VariantDistance(variant, c, p) ==
  IF variant = "full" THEN LabDistance(c, p)
  ELSE IF variant = "ab" THEN LabDistanceAB(c, p)
  ELSE LabDistanceL(c, p)

\* lines 18, 46, 68: if (distance < smallestDistance).  smallestDistance
\* starts as Number.MAX_VALUE, above every distance: atMax records that
CloserOrEqual(distance, smallest) == smallest.atMax \/ distance <= smallest.distance
Closer(distance, smallest) == smallest.atMax \/ distance < smallest.distance

\* the loop of the three functions, from index i on
RECURSIVE ClosestLoop(_, _, _, _, _)
ClosestLoop(variant, c, palette, i, best) ==
  IF i >= Len(palette) THEN best.closestIndex
  ELSE LET distance == VariantDistance(variant, c, At(palette, i))
       IN ClosestLoop(variant, c, palette, i + 1,
                      IF Closer(distance, best)
                      THEN [closestIndex |-> i, distance |-> distance, atMax |-> FALSE]
                      ELSE best)

ClosestStart == [closestIndex |-> 0, distance |-> 0, atMax |-> TRUE]

\* lines 7-25
findClosestColorIndex(c, palette) == ClosestLoop("full", c, palette, 0, ClosestStart)
\* lines 27-53
findClosestColorIndexAB(c, palette) == ClosestLoop("ab", c, palette, 0, ClosestStart)
\* lines 55-75
findClosestColorIndexL(c, palette) == ClosestLoop("l", c, palette, 0, ClosestStart)

ClosestIdle ==
  /\ cPc = "idle"
  /\ cVariant = "none"
  /\ labColor = [l |-> 0, a |-> 0, b |-> 0]
  /\ paletteLab = <<>>
  /\ closestIndex = 0

ClosestEntry ==
  /\ cPc = "entry"
  /\ cVariant = "none"
  /\ labColor \in LabColors
  /\ paletteLab \in SeqsOver(LabColors, 0, MaxPaletteLab)
  /\ closestIndex = 0

CallClosestFull ==
  /\ cPc = "entry"
  /\ closestIndex' = findClosestColorIndex(labColor, paletteLab)
  /\ cVariant' = "full"
  /\ cPc' = "returned"
  /\ UNCHANGED <<labColor, paletteLab>>
  /\ UNCHANGED cOthers

CallClosestAB ==
  /\ cPc = "entry"
  /\ closestIndex' = findClosestColorIndexAB(labColor, paletteLab)
  /\ cVariant' = "ab"
  /\ cPc' = "returned"
  /\ UNCHANGED <<labColor, paletteLab>>
  /\ UNCHANGED cOthers

CallClosestL ==
  /\ cPc = "entry"
  /\ closestIndex' = findClosestColorIndexL(labColor, paletteLab)
  /\ cVariant' = "l"
  /\ cPc' = "returned"
  /\ UNCHANGED <<labColor, paletteLab>>
  /\ UNCHANGED cOthers

ClosestNext ==
  \/ CallClosestFull
  \/ CallClosestAB
  \/ CallClosestL

----------------------------------------------------------------------------
(* colors.ts: colour conversion *)

\* Lab values are kept in hundredths, rounded to the nearest hundredth.

\* rgbToLab, lines 81-109, at the colours with channels 0, 1, 128 or 255: the
\* values the source's formulas give for them, as <<colour, Lab>>
RgbToLabTable ==
  {<<[r |-> 0, g |-> 0, b |-> 0], [l |-> 0, a |-> 0, b |-> 0]>>,
   <<[r |-> 0, g |-> 0, b |-> 1], [l |-> 2, a |-> 10, b |-> -38]>>,
   <<[r |-> 0, g |-> 0, b |-> 128], [l |-> 1133, a |-> 4097, b |-> -6720]>>,
   <<[r |-> 0, g |-> 0, b |-> 255], [l |-> 2957, a |-> 6830, b |-> -11203]>>,
   <<[r |-> 0, g |-> 1, b |-> 0], [l |-> 20, a |-> -38, b |-> 28]>>,
   <<[r |-> 0, g |-> 1, b |-> 1], [l |-> 21, a |-> -27, b |-> -10]>>,
   <<[r |-> 0, g |-> 1, b |-> 128], [l |-> 1149, a |-> 4052, b |-> -6695]>>,
   <<[r |-> 0, g |-> 1, b |-> 255], [l |-> 2962, a |-> 6814, b |-> -11194]>>,
   <<[r |-> 0, g |-> 128, b |-> 0], [l |-> 4628, a |-> -4756, b |-> 4858]>>,
   <<[r |-> 0, g |-> 128, b |-> 1], [l |-> 4628, a |-> -4753, b |-> 4839]>>,
   <<[r |-> 0, g |-> 128, b |-> 128], [l |-> 4799, a |-> -3039, b |-> -898]>>,
   <<[r |-> 0, g |-> 128, b |-> 255], [l |-> 5353, a |-> 867, b |-> -7256]>>,
   <<[r |-> 0, g |-> 255, b |-> 0], [l |-> 8782, a |-> -7929, b |-> 8099]>>,
   <<[r |-> 0, g |-> 255, b |-> 1], [l |-> 8782, a |-> -7928, b |-> 8092]>>,
   <<[r |-> 0, g |-> 255, b |-> 128], [l |-> 8845, a |-> -7240, b |-> 4553]>>,
   <<[r |-> 0, g |-> 255, b |-> 255], [l |-> 9067, a |-> -5067, b |-> -1496]>>,
   <<[r |-> 1, g |-> 0, b |-> 0], [l |-> 6, a |-> 27, b |-> 10]>>,
   <<[r |-> 1, g |-> 0, b |-> 1], [l |-> 8, a |-> 38, b |-> -28]>>,
   <<[r |-> 1, g |-> 0, b |-> 128], [l |-> 1138, a |-> 4099, b |-> -6712]>>,
   <<[r |-> 1, g |-> 0, b |-> 255], [l |-> 2958, a |-> 6831, b |-> -11200]>>,
   <<[r |-> 1, g |-> 1, b |-> 0], [l |-> 26, a |-> -10, b |-> 38]>>,
   <<[r |-> 1, g |-> 1, b |-> 1], [l |-> 27, a |-> 0, b |-> 0]>>,
   <<[r |-> 1, g |-> 1, b |-> 128], [l |-> 1153, a |-> 4055, b |-> -6687]>>,
   <<[r |-> 1, g |-> 1, b |-> 255], [l |-> 2964, a |-> 6814, b |-> -11191]>>,
   <<[r |-> 1, g |-> 128, b |-> 0], [l |-> 4629, a |-> -4748, b |-> 4860]>>,
   <<[r |-> 1, g |-> 128, b |-> 1], [l |-> 4629, a |-> -4746, b |-> 4840]>>,
   <<[r |-> 1, g |-> 128, b |-> 128], [l |-> 4799, a |-> -3033, b |-> -896]>>,
   <<[r |-> 1, g |-> 128, b |-> 255], [l |-> 5354, a |-> 870, b |-> -7255]>>,
   <<[r |-> 1, g |-> 255, b |-> 0], [l |-> 8782, a |-> -7926, b |-> 8099]>>,
   <<[r |-> 1, g |-> 255, b |-> 1], [l |-> 8782, a |-> -7925, b |-> 8092]>>,
   <<[r |-> 1, g |-> 255, b |-> 128], [l |-> 8845, a |-> -7238, b |-> 4553]>>,
   <<[r |-> 1, g |-> 255, b |-> 255], [l |-> 9067, a |-> -5064, b |-> -1496]>>,
   <<[r |-> 128, g |-> 0, b |-> 0], [l |-> 2617, a |-> 4848, b |-> 3944]>>,
   <<[r |-> 128, g |-> 0, b |-> 1], [l |-> 2617, a |-> 4849, b |-> 3904]>>,
   <<[r |-> 128, g |-> 0, b |-> 128], [l |-> 2969, a |-> 5612, b |-> -3629]>>,
   <<[r |-> 128, g |-> 0, b |-> 255], [l |-> 3935, a |-> 7471, b |-> -9543]>>,
   <<[r |-> 128, g |-> 1, b |-> 0], [l |-> 2623, a |-> 4830, b |-> 3949]>>,
   <<[r |-> 128, g |-> 1, b |-> 1], [l |-> 2623, a |-> 4831, b |-> 3909]>>,
   <<[r |-> 128, g |-> 1, b |-> 128], [l |-> 2975, a |-> 5596, b |-> -3621]>>,
   <<[r |-> 128, g |-> 1, b |-> 255], [l |-> 3939, a |-> 7461, b |-> -9537]>>,
   <<[r |-> 128, g |-> 128, b |-> 0], [l |-> 5215, a |-> -945, b |-> 5602]>>,
   <<[r |-> 128, g |-> 128, b |-> 1], [l |-> 5215, a |-> -944, b |-> 5584]>>,
   <<[r |-> 128, g |-> 128, b |-> 128], [l |-> 5359, a |-> 0, b |-> 0]>>,
   <<[r |-> 128, g |-> 128, b |-> 255], [l |-> 5836, a |-> 2579, b |-> -6450]>>,
   <<[r |-> 128, g |-> 255, b |-> 0], [l |-> 9009, a |-> -6122, b |-> 8390]>>,
   <<[r |-> 128, g |-> 255, b |-> 1], [l |-> 9009, a |-> -6121, b |-> 8383]>>,
   <<[r |-> 128, g |-> 255, b |-> 128], [l |-> 9069, a |-> -5548, b |-> 4886]>>,
   <<[r |-> 128, g |-> 255, b |-> 255], [l |-> 9282, a |-> -3696, b |-> -1150]>>,
   <<[r |-> 255, g |-> 0, b |-> 0], [l |-> 5429, a |-> 8081, b |-> 6989]>>,
   <<[r |-> 255, g |-> 0, b |-> 1], [l |-> 5429, a |-> 8082, b |-> 6962]>>,
   <<[r |-> 255, g |-> 0, b |-> 128], [l |-> 5564, a |-> 8384, b |-> 585]>>,
   <<[r |-> 255, g |-> 0, b |-> 255], [l |-> 6017, a |-> 9355, b |-> -6050]>>,
   <<[r |-> 255, g |-> 1, b |-> 0], [l |-> 5431, a |-> 8075, b |-> 6989]>>,
   <<[r |-> 255, g |-> 1, b |-> 1], [l |-> 5432, a |-> 8075, b |-> 6963]>>,
   <<[r |-> 255, g |-> 1, b |-> 128], [l |-> 5567, a |-> 8378, b |-> 588]>>,
   <<[r |-> 255, g |-> 1, b |-> 255], [l |-> 6019, a |-> 9349, b |-> -6047]>>,
   <<[r |-> 255, g |-> 128, b |-> 0], [l |-> 6782, a |-> 4549, b |-> 7484]>>,
   <<[r |-> 255, g |-> 128, b |-> 1], [l |-> 6782, a |-> 4550, b |-> 7469]>>,
   <<[r |-> 255, g |-> 128, b |-> 128], [l |-> 6878, a |-> 4927, b |-> 2379]>>,
   <<[r |-> 255, g |-> 128, b |-> 255], [l |-> 7209, a |-> 6147, b |-> -4178]>>,
   <<[r |-> 255, g |-> 255, b |-> 0], [l |-> 9761, a |-> -1575, b |-> 9339]>>,
   <<[r |-> 255, g |-> 255, b |-> 1], [l |-> 9761, a |-> -1575, b |-> 9332]>>,
   <<[r |-> 255, g |-> 255, b |-> 128], [l |-> 9813, a |-> -1215, b |-> 5979]>>,
   <<[r |-> 255, g |-> 255, b |-> 255], [l |-> 10000, a |-> 0, b |-> 0]>>}

\* the colours rgbToLab is applied to
ConvertColors == {row[1] : row \in RgbToLabTable}

\* Lab values handed to labToRgb directly: outside the sRGB gamut (strong
\* a or b, lightness below 0 or above 100) and a mid grey inside it
LabInputs ==
  {[l |-> 5000, a |-> 10000, b |-> 0],
   [l |-> 5000, a |-> 0, b |-> 10000],
   [l |-> 5000, a |-> -10000, b |-> 0],
   [l |-> 10000, a |-> 10000, b |-> 10000],
   [l |-> -6000, a |-> 0, b |-> 0],
   [l |-> 5000, a |-> 0, b |-> 0],
   [l |-> 10500, a |-> 0, b |-> 0],
   [l |-> 0, a |-> 4800, b |-> 6400]}

\* labToRgb, lines 111-133, lrgb2rgb's Math.round(...) || 0 included, at the
\* Lab values above: the values the source's formulas give for them, as
\* <<Lab, colour>>
LabToRgbTable ==
  {<<[l |-> 0, a |-> 0, b |-> 0], [r |-> 0, g |-> 0, b |-> 0]>>,
   <<[l |-> 2, a |-> 10, b |-> -38], [r |-> 0, g |-> 0, b |-> 1]>>,
   <<[l |-> 1133, a |-> 4097, b |-> -6720], [r |-> 0, g |-> 0, b |-> 128]>>,
   <<[l |-> 2957, a |-> 6830, b |-> -11203], [r |-> 0, g |-> 0, b |-> 255]>>,
   <<[l |-> 20, a |-> -38, b |-> 28], [r |-> 0, g |-> 1, b |-> 0]>>,
   <<[l |-> 21, a |-> -27, b |-> -10], [r |-> 0, g |-> 1, b |-> 1]>>,
   <<[l |-> 1149, a |-> 4052, b |-> -6695], [r |-> 0, g |-> 1, b |-> 128]>>,
   <<[l |-> 2962, a |-> 6814, b |-> -11194], [r |-> 0, g |-> 1, b |-> 255]>>,
   <<[l |-> 4628, a |-> -4756, b |-> 4858], [r |-> 0, g |-> 128, b |-> 0]>>,
   <<[l |-> 4628, a |-> -4753, b |-> 4839], [r |-> 0, g |-> 128, b |-> 1]>>,
   <<[l |-> 4799, a |-> -3039, b |-> -898], [r |-> 0, g |-> 128, b |-> 128]>>,
   <<[l |-> 5353, a |-> 867, b |-> -7256], [r |-> 0, g |-> 128, b |-> 255]>>,
   <<[l |-> 8782, a |-> -7929, b |-> 8099], [r |-> 0, g |-> 255, b |-> 0]>>,
   <<[l |-> 8782, a |-> -7928, b |-> 8092], [r |-> 0, g |-> 255, b |-> 1]>>,
   <<[l |-> 8845, a |-> -7240, b |-> 4553], [r |-> 0, g |-> 255, b |-> 128]>>,
   <<[l |-> 9067, a |-> -5067, b |-> -1496], [r |-> 0, g |-> 255, b |-> 255]>>,
   <<[l |-> 6, a |-> 27, b |-> 10], [r |-> 1, g |-> 0, b |-> 0]>>,
   <<[l |-> 8, a |-> 38, b |-> -28], [r |-> 1, g |-> 0, b |-> 1]>>,
   <<[l |-> 1138, a |-> 4099, b |-> -6712], [r |-> 1, g |-> 0, b |-> 128]>>,
   <<[l |-> 2958, a |-> 6831, b |-> -11200], [r |-> 1, g |-> 0, b |-> 255]>>,
   <<[l |-> 26, a |-> -10, b |-> 38], [r |-> 1, g |-> 1, b |-> 0]>>,
   <<[l |-> 27, a |-> 0, b |-> 0], [r |-> 1, g |-> 1, b |-> 1]>>,
   <<[l |-> 1153, a |-> 4055, b |-> -6687], [r |-> 1, g |-> 1, b |-> 128]>>,
   <<[l |-> 2964, a |-> 6814, b |-> -11191], [r |-> 1, g |-> 1, b |-> 255]>>,
   <<[l |-> 4629, a |-> -4748, b |-> 4860], [r |-> 1, g |-> 128, b |-> 0]>>,
   <<[l |-> 4629, a |-> -4746, b |-> 4840], [r |-> 1, g |-> 128, b |-> 1]>>,
   <<[l |-> 4799, a |-> -3033, b |-> -896], [r |-> 1, g |-> 128, b |-> 128]>>,
   <<[l |-> 5354, a |-> 870, b |-> -7255], [r |-> 1, g |-> 128, b |-> 255]>>,
   <<[l |-> 8782, a |-> -7926, b |-> 8099], [r |-> 1, g |-> 255, b |-> 0]>>,
   <<[l |-> 8782, a |-> -7925, b |-> 8092], [r |-> 1, g |-> 255, b |-> 1]>>,
   <<[l |-> 8845, a |-> -7238, b |-> 4553], [r |-> 1, g |-> 255, b |-> 128]>>,
   <<[l |-> 9067, a |-> -5064, b |-> -1496], [r |-> 1, g |-> 255, b |-> 255]>>,
   <<[l |-> 2617, a |-> 4848, b |-> 3944], [r |-> 128, g |-> 0, b |-> 0]>>,
   <<[l |-> 2617, a |-> 4849, b |-> 3904], [r |-> 128, g |-> 0, b |-> 1]>>,
   <<[l |-> 2969, a |-> 5612, b |-> -3629], [r |-> 128, g |-> 0, b |-> 128]>>,
   <<[l |-> 3935, a |-> 7471, b |-> -9543], [r |-> 128, g |-> 0, b |-> 255]>>,
   <<[l |-> 2623, a |-> 4830, b |-> 3949], [r |-> 128, g |-> 1, b |-> 0]>>,
   <<[l |-> 2623, a |-> 4831, b |-> 3909], [r |-> 128, g |-> 1, b |-> 1]>>,
   <<[l |-> 2975, a |-> 5596, b |-> -3621], [r |-> 128, g |-> 1, b |-> 128]>>,
   <<[l |-> 3939, a |-> 7461, b |-> -9537], [r |-> 128, g |-> 1, b |-> 255]>>,
   <<[l |-> 5215, a |-> -945, b |-> 5602], [r |-> 128, g |-> 128, b |-> 0]>>,
   <<[l |-> 5215, a |-> -944, b |-> 5584], [r |-> 128, g |-> 128, b |-> 1]>>,
   <<[l |-> 5359, a |-> 0, b |-> 0], [r |-> 128, g |-> 128, b |-> 128]>>,
   <<[l |-> 5836, a |-> 2579, b |-> -6450], [r |-> 128, g |-> 128, b |-> 255]>>,
   <<[l |-> 9009, a |-> -6122, b |-> 8390], [r |-> 128, g |-> 255, b |-> 0]>>,
   <<[l |-> 9009, a |-> -6121, b |-> 8383], [r |-> 128, g |-> 255, b |-> 1]>>,
   <<[l |-> 9069, a |-> -5548, b |-> 4886], [r |-> 128, g |-> 255, b |-> 128]>>,
   <<[l |-> 9282, a |-> -3696, b |-> -1150], [r |-> 128, g |-> 255, b |-> 255]>>,
   <<[l |-> 5429, a |-> 8081, b |-> 6989], [r |-> 255, g |-> 0, b |-> 0]>>,
   <<[l |-> 5429, a |-> 8082, b |-> 6962], [r |-> 255, g |-> 0, b |-> 1]>>,
   <<[l |-> 5564, a |-> 8384, b |-> 585], [r |-> 255, g |-> 0, b |-> 128]>>,
   <<[l |-> 6017, a |-> 9355, b |-> -6050], [r |-> 255, g |-> 0, b |-> 255]>>,
   <<[l |-> 5431, a |-> 8075, b |-> 6989], [r |-> 255, g |-> 1, b |-> 0]>>,
   <<[l |-> 5432, a |-> 8075, b |-> 6963], [r |-> 255, g |-> 1, b |-> 1]>>,
   <<[l |-> 5567, a |-> 8378, b |-> 588], [r |-> 255, g |-> 1, b |-> 128]>>,
   <<[l |-> 6019, a |-> 9349, b |-> -6047], [r |-> 255, g |-> 1, b |-> 255]>>,
   <<[l |-> 6782, a |-> 4549, b |-> 7484], [r |-> 255, g |-> 128, b |-> 0]>>,
   <<[l |-> 6782, a |-> 4550, b |-> 7469], [r |-> 255, g |-> 128, b |-> 1]>>,
   <<[l |-> 6878, a |-> 4927, b |-> 2379], [r |-> 255, g |-> 128, b |-> 128]>>,
   <<[l |-> 7209, a |-> 6147, b |-> -4178], [r |-> 255, g |-> 128, b |-> 255]>>,
   <<[l |-> 9761, a |-> -1575, b |-> 9339], [r |-> 255, g |-> 255, b |-> 0]>>,
   <<[l |-> 9761, a |-> -1575, b |-> 9332], [r |-> 255, g |-> 255, b |-> 1]>>,
   <<[l |-> 9813, a |-> -1215, b |-> 5979], [r |-> 255, g |-> 255, b |-> 128]>>,
   <<[l |-> 10000, a |-> 0, b |-> 0], [r |-> 255, g |-> 255, b |-> 255]>>,
   <<[l |-> 5000, a |-> 10000, b |-> 0], [r |-> 255, g |-> -234, b |-> 124]>>,
   <<[l |-> 5000, a |-> 0, b |-> 10000], [r |-> 140, g |-> 117, b |-> -131]>>,
   <<[l |-> 5000, a |-> -10000, b |-> 0], [r |-> -727, g |-> 151, b |-> 116]>>,
   <<[l |-> 10000, a |-> 10000, b |-> 10000], [r |-> 442, g |-> 146, b |-> 53]>>,
   <<[l |-> -6000, a |-> 0, b |-> 0], [r |-> -219, g |-> -219, b |-> -219]>>,
   <<[l |-> 5000, a |-> 0, b |-> 0], [r |-> 119, g |-> 119, b |-> 119]>>,
   <<[l |-> 10500, a |-> 0, b |-> 0], [r |-> 270, g |-> 270, b |-> 270]>>,
   <<[l |-> 0, a |-> 4800, b |-> 6400], [r |-> 67, g |-> -44, b |-> -154]>>}

\* lines 89-109
rgbToLab(color) == (CHOOSE row \in RgbToLabTable : row[1] = color)[2]

\* lines 122-133
labToRgbGreenForBlue(lab) ==
  LET rgb == (CHOOSE row \in LabToRgbTable : row[1] = lab)[2]
  IN [r |-> rgb.r, g |-> rgb.g, b |-> rgb.g]
labToRgb(lab) == (CHOOSE row \in LabToRgbTable : row[1] = lab)[2]

ConvertIdle ==
  /\ kPc = "idle"
  /\ convFrom = "none"
  /\ convRgb = [r |-> 0, g |-> 0, b |-> 0]
  /\ convLab = [l |-> 0, a |-> 0, b |-> 0]
  /\ convBack = [r |-> 0, g |-> 0, b |-> 0]

\* a colour about to go through rgbToLab and back, or a Lab value about to
\* go through labToRgb
ConvertEntry ==
  /\ kPc = "entry"
  /\ \/ /\ convFrom = "rgb"
        /\ convRgb \in ConvertColors
        /\ convLab = [l |-> 0, a |-> 0, b |-> 0]
     \/ /\ convFrom = "lab"
        /\ convRgb = [r |-> 0, g |-> 0, b |-> 0]
        /\ convLab \in LabInputs
  /\ convBack = [r |-> 0, g |-> 0, b |-> 0]

CallRgbToLab ==
  /\ kPc = "entry"
  /\ convFrom = "rgb"
  /\ convLab' = rgbToLab(convRgb)
  /\ kPc' = "lab"
  /\ UNCHANGED <<convFrom, convRgb, convBack>>
  /\ UNCHANGED kOthers

CallLabToRgb ==
  /\ \/ kPc = "lab"
     \/ kPc = "entry" /\ convFrom = "lab"
  /\ convBack' = labToRgb(convLab)
  /\ kPc' = "returned"
  /\ UNCHANGED <<convFrom, convRgb, convLab>>
  /\ UNCHANGED kOthers

ConvertNext ==
  \/ CallRgbToLab
  \/ CallLabToRgb

----------------------------------------------------------------------------
(* colors.ts: palette pairing *)

\* lines 135-142, in hundredths, rounded down
colorDistance(color1, color2) ==
  LET lab1 == rgbToLab(color1)
      lab2 == rgbToLab(color2)
      deltaL == lab1.l - lab2.l
      deltaA == lab1.a - lab2.a
      deltaB == lab1.b - lab2.b
  IN Isqrt(deltaL * deltaL + deltaA * deltaA + deltaB * deltaB)

\* lines 144-155
createDistanceMatrixOneRow(cs1, cs2) ==
  IF Len(cs1) = 0 THEN <<(<<>>)>>
  ELSE [i \in 1..Len(cs1) |-> [j \in 1..Len(cs2) |-> colorDistance(cs1[i], cs2[j])]]
createDistanceMatrixFirstRow(cs1, cs2) ==
  [i \in 1..Len(cs1) |-> [j \in 1..Len(cs2) |-> colorDistance(cs1[1], cs2[j])]]
createDistanceMatrix(cs1, cs2) ==
  [i \in 1..Len(cs1) |-> [j \in 1..Len(cs2) |-> colorDistance(cs1[i], cs2[j])]]

MatrixRows(m) == 0..(Len(m) - 1)
MatrixCols(m) == IF Len(m) = 0 THEN {} ELSE 0..(Len(m[1]) - 1)

\* the one-to-one partial matchings of size min(M, N) of an M x N matrix:
\* injective maps from min(M, N) rows to columns
PartialMatchings(m) ==
  LET k == Min2(Cardinality(MatrixRows(m)), Cardinality(MatrixCols(m)))
      rowSets == {T \in SUBSET MatrixRows(m) : Cardinality(T) = k}
  IN {f \in UNION {[T -> MatrixCols(m)] : T \in rowSets} :
        \A x, y \in DOMAIN f : x # y => f[x] # f[y]}

RECURSIVE MatchingCostOver(_, _, _)
MatchingCostOver(m, f, rows) ==
  IF rows = {} THEN 0
  ELSE LET x == MinOf(rows)
       IN At(At(m, x), f[x]) + MatchingCostOver(m, f, rows \ {x})
MatchingCost(m, f) == MatchingCostOver(m, f, DOMAIN f)

RECURSIVE Ascending(_)
Ascending(S) == IF S = {} THEN <<>> ELSE <<MinOf(S)>> \o Ascending(S \ {MinOf(S)})

\* the [row, column] pairs of a matching, rows ascending
PairsOf(f) == [k \in 1..Cardinality(DOMAIN f) |->
                 <<Ascending(DOMAIN f)[k], f[Ascending(DOMAIN f)[k]]>>]

\* munkres-js (a dependency, not in the repository): the assignment solver.
\* An empty cost matrix is a precondition violation and fails at once (the
\* solver reads the width of the first row, which an empty matrix lacks).
munkresThrows(m) == Len(m) = 0

\* What it may return for a cost matrix: the pairs of a minimum-cost
\* one-to-one partial matching of size min(M, N), rows ascending.
munkres(m) ==
  {PairsOf(f) : f \in {g \in PartialMatchings(m) :
                          \A h \in PartialMatchings(m) : MatchingCost(m, g) <= MatchingCost(m, h)}}

\* an array read past the end: undefined
UndefinedColor == [r |-> -1, g |-> -1, b |-> -1]
Elem(arr, k) == IF k >= 0 /\ k < Len(arr) THEN At(arr, k) ELSE UndefinedColor

\* line 160: results.map((result) => colors2[result[1]])
MapResults(res, cs2) == [k \in 1..Len(res) |-> Elem(cs2, res[k][2])]

PairingIdle ==
  /\ pPc = "idle"
  /\ colors1 = <<>>
  /\ colors2 = <<>>
  /\ results = <<>>
  /\ sortedColors = <<>>

PairingEntry ==
  /\ pPc = "entry"
  /\ colors1 \in SeqsOver(RGBColors, 0, MaxPairing)
  /\ colors2 \in SeqsOver(RGBColors, 0, MaxPairing)
  /\ results = <<>>
  /\ sortedColors = <<>>

\* lines 157-161
sortColorsByPairing ==
  /\ pPc = "entry"
  /\ ~munkresThrows(createDistanceMatrix(colors1, colors2))
  /\ \E res \in munkres(createDistanceMatrix(colors1, colors2)) :
       /\ results' = res
       /\ sortedColors' = MapResults(res, colors2)
  /\ pPc' = "returned"
  /\ UNCHANGED <<colors1, colors2>>
  /\ UNCHANGED pOthers

\* lines 158-159: the solver throws, and so does sortColorsByPairing
sortColorsByPairingThrow ==
  /\ pPc = "entry"
  /\ munkresThrows(createDistanceMatrix(colors1, colors2))
  /\ pPc' = "thrown"
  /\ UNCHANGED <<colors1, colors2, results, sortedColors>>
  /\ UNCHANGED pOthers

PairingNext ==
  \/ sortColorsByPairing
  \/ sortColorsByPairingThrow

----------------------------------------------------------------------------
(* colors.ts: palette interpolation *)

\* Math.round of num / den, den > 0: the nearest integer, halves upwards
MathFloor(num, den) == num \div den
MathRound(num, den) == (2 * num + den) \div (2 * den)

\* lines 171-173: Math.round(c1 + (c2 - c1) * i), i = t[1] / t[2]
BlendChannelSum(c1, c2, t) == MathRound(c1 * t[2] + (c2 + c1) * t[1], t[2])
BlendChannel(c1, c2, t) == MathRound(c1 * t[2] + (c2 - c1) * t[1], t[2])

\* lines 168-176
interpolatePalette(p1, p2, t) ==
  [k \in 1..Len(p1) |->
     [r |-> BlendChannel(p1[k].r, p2[k].r, t),
      g |-> BlendChannel(p1[k].g, p2[k].g, t),
      b |-> BlendChannel(p1[k].b, p2[k].b, t)]]

\* line 169-171: palette2[index] is undefined for an index past its end, and
\* reading color2.r throws
InterpolateThrows(p1, p2) == Len(p2) < Len(p1)

InterpIdle ==
  /\ iPc = "idle"
  /\ palette1 = <<>>
  /\ palette2 = <<>>
  /\ blend = <<0, 1>>
  /\ newPalette = <<>>

InterpEntry ==
  /\ iPc = "entry"
  /\ palette1 \in SeqsOver(InterpColors, 0, MaxInterpLen)
  /\ palette2 \in SeqsOver(InterpColors, 0, MaxInterpLen)
  /\ blend \in BlendFactors
  /\ newPalette = <<>>

InterpCall ==
  /\ iPc = "entry"
  /\ ~InterpolateThrows(palette1, palette2)
  /\ newPalette' = interpolatePalette(palette1, palette2, blend)
  /\ iPc' = "returned"
  /\ UNCHANGED <<palette1, palette2, blend>>
  /\ UNCHANGED iOthers

InterpThrow ==
  /\ iPc = "entry"
  /\ InterpolateThrows(palette1, palette2)
  /\ iPc' = "thrown"
  /\ UNCHANGED <<palette1, palette2, blend, newPalette>>
  /\ UNCHANGED iOthers

InterpNext ==
  \/ InterpCall
  \/ InterpThrow

----------------------------------------------------------------------------
(* trimBottomRow *)

\* lines 57-63: the y values of the cloud (indices 1, 4, 7, ...)
Heights(positions) == {At(positions, i * 3 + 1) : i \in 0..(VertCount(positions) - 1)}

\* lines 65-66, 71: y <= threshold with threshold = minY + height * 0.01,
\* both sides times 100
IsTrimmedBelow(y, minY, maxY) == 100 * y < 100 * minY + (maxY - minY)
IsTrimmed(y, minY, maxY) == 100 * y <= 100 * minY + (maxY - minY)

\* lines 68-73: the kept vertices from vertex i on, in order
RECURSIVE Kept(_, _, _, _)
Kept(positions, i, minY, maxY) ==
  IF i >= VertCount(positions) THEN <<>>
  ELSE (IF IsTrimmed(At(positions, i * 3 + 1), minY, maxY) THEN <<>>
        ELSE <<At(positions, i * 3), At(positions, i * 3 + 1), At(positions, i * 3 + 2)>>)
       \o Kept(positions, i + 1, minY, maxY)

\* lines 54-76
trimBottomRow(positions) ==
  IF Len(positions) < 3 THEN positions
  ELSE LET kept == Kept(positions, 0, MinOf(Heights(positions)), MaxOf(Heights(positions)))
       IN IF Len(kept) >= 3 THEN kept ELSE positions

TrimIdle ==
  /\ tPc = "idle"
  /\ trimPositions = <<>>
  /\ trimmed = <<>>

TrimEntry ==
  /\ tPc = "entry"
  /\ trimPositions \in UNION {CloudsOver(TrimPoints, n) : n \in 0..MaxTrimLen}
  /\ trimmed = <<>>

TrimCall ==
  /\ tPc = "entry"
  /\ trimmed' = trimBottomRow(trimPositions)
  /\ tPc' = "returned"
  /\ UNCHANGED trimPositions
  /\ UNCHANGED tOthers

TrimNext == TrimCall

----------------------------------------------------------------------------
(* normalizePositions *)

\* Coordinates of the result are fractions: the array is kept as its
\* numerators over one common denominator.

\* lines 38-42: maxDim
MaxDimXY(positions) ==
  MaxOf({MaxOf(Axis(positions, c)) - MinOf(Axis(positions, c)) : c \in 0..1})
MaxDim(positions) ==
  MaxOf({MaxOf(Axis(positions, c)) - MinOf(Axis(positions, c)) : c \in 0..2})

\* line 43: scale = maxDim > 0 ? 3.0 / maxDim : 1.0, as <<numerator, denominator>>
NormScale(maxDim) == IF maxDim > 0 THEN <<3, maxDim>> ELSE <<1, 1>>

\* lines 34-36, 47-49: (positions[k] - center) * scale with
\* center = (min + max) / 2 of the axis of k: the numerator over 2 * scale[2]
NormNumerator(positions, k, scale) ==
  (2 * At(positions, k) - MinOf(Axis(positions, k % 3)) - MaxOf(Axis(positions, k % 3)))
    * scale[1]

\* lines 19-52.  An empty array comes back empty (the loops do not run).
normalizePositions(positions) ==
  IF Len(positions) = 0 THEN [num |-> <<>>, den |-> 1]
  ELSE LET scale == NormScale(MaxDim(positions))
       IN [num |-> [k \in 1..Len(positions) |-> NormNumerator(positions, k - 1, scale)],
           den |-> 2 * scale[2]]

NormIdle ==
  /\ nPc = "idle"
  /\ normPositions = <<>>
  /\ normalized = [num |-> <<>>, den |-> 1]

NormEntry ==
  /\ nPc = "entry"
  /\ normPositions \in UNION {CloudsOver(NormPoints, n) : n \in 0..MaxNormLen}
  /\ normalized = [num |-> <<>>, den |-> 1]

NormCall ==
  /\ nPc = "entry"
  /\ normalized' = normalizePositions(normPositions)
  /\ nPc' = "returned"
  /\ UNCHANGED normPositions
  /\ UNCHANGED nOthers

NormNext == NormCall

----------------------------------------------------------------------------
(* generate-palettes.mjs: main, the palette batch *)

\* lines 5-9
RGB(colorArray) == [r |-> colorArray[1], g |-> colorArray[2], b |-> colorArray[3]]

\* line 31: result[filename] = palette.map(RGB)
SetPalette(res, filename, palette) ==
  [f \in (DOMAIN res) \cup {filename} |->
     IF f = filename THEN [k \in 1..Len(palette) |-> RGB(palette[k])] ELSE res[f]]

NoPalettes == [f \in {} |-> <<>>]

\* lines 29-35: where the run goes when getPalette (or palette.map) throws:
\* the catch logs a warning and the loop goes on
AfterExtractErrorUncaught == "exit1"
AfterExtractError == "loop"

PaletteIdle ==
  /\ gPc = "idle"
  /\ imageFiles = <<>>
  /\ gI = 0
  /\ result = NoPalettes
  /\ extracted = <<>>
  /\ palettesJson = [written |-> FALSE, data |-> NoPalettes]

PaletteStart ==
  /\ gPc = "start"
  /\ imageFiles = <<>>
  /\ gI = 0
  /\ result = NoPalettes
  /\ extracted = <<>>
  /\ palettesJson = [written |-> FALSE, data |-> NoPalettes]

\* lines 15-24: the directory holds k >= 0 images, named 1..k in sorted order
PaletteReaddir ==
  /\ gPc = "start"
  /\ \E k \in 0..MaxImages : imageFiles' = [f \in 1..k |-> f]
  /\ gPc' = "loop"
  /\ UNCHANGED <<gI, result, extracted, palettesJson>>
  /\ UNCHANGED gOthers

\* line 15: readdir rejects; main().catch (lines 42-45) exits
PaletteReaddirFail ==
  /\ gPc = "start"
  /\ gPc' = "exit1"
  /\ UNCHANGED <<imageFiles, gI, result, extracted, palettesJson>>
  /\ UNCHANGED gOthers

\* lines 28-32, one iteration in which the extraction succeeds
PaletteExtract ==
  /\ gPc = "loop"
  /\ gI < Len(imageFiles)
  /\ \E palette \in ThiefPalettes :
       result' = SetPalette(result, imageFiles[gI + 1], palette)
  /\ extracted' = Append(extracted, TRUE)
  /\ gI' = gI + 1
  /\ UNCHANGED <<gPc, imageFiles, palettesJson>>
  /\ UNCHANGED gOthers

\* lines 28-35, one iteration in which getPalette rejects (or resolves with
\* no palette, and palette.map throws)
PaletteExtractFail ==
  /\ gPc = "loop"
  /\ gI < Len(imageFiles)
  /\ gPc' = AfterExtractError
  /\ extracted' = Append(extracted, FALSE)
  /\ gI' = gI + 1
  /\ UNCHANGED <<imageFiles, result, palettesJson>>
  /\ UNCHANGED gOthers

\* lines 38-39
PaletteWrite ==
  /\ gPc = "loop"
  /\ gI >= Len(imageFiles)
  /\ palettesJson' = [written |-> TRUE, data |-> result]
  /\ gPc' = "done"
  /\ UNCHANGED <<imageFiles, gI, result, extracted>>
  /\ UNCHANGED gOthers

\* line 38: writeFile rejects; main().catch (lines 42-45) exits
PaletteWriteFail ==
  /\ gPc = "loop"
  /\ gI >= Len(imageFiles)
  /\ gPc' = "exit1"
  /\ UNCHANGED <<imageFiles, gI, result, extracted, palettesJson>>
  /\ UNCHANGED gOthers

PaletteNext ==
  \/ PaletteReaddir
  \/ PaletteReaddirFail
  \/ PaletteExtract
  \/ PaletteExtractFail
  \/ PaletteWrite
  \/ PaletteWriteFail

----------------------------------------------------------------------------
(* clampPositions, src/unnamed/part_003 lines 78-94 *)

\* line 81: Math.ceil(vertCount / maxVertices)
StrideFloor(vertCount, cap) == vertCount \div cap
Stride(vertCount, cap) == (vertCount + cap - 1) \div cap

\* line 82: Math.floor(vertCount / stride)
KeptVertices(vertCount, stride) == vertCount \div stride

\* lines 85-92: for (let i = 0; i < vertCount && ri < result.length / 3; i += stride)
RECURSIVE ClampLoop(_, _, _, _, _)
ClampLoop(positions, stride, out, i, ri) ==
  IF i < VertCount(positions) /\ ri < Len(out) \div 3
  THEN ClampLoop(positions, stride, WritePoint(out, ri, positions, i), i + stride, ri + 1)
  ELSE out

\* lines 78-94
clampPositions(positions, cap) ==
  IF VertCount(positions) <= cap THEN positions
  ELSE ClampLoop(positions, Stride(VertCount(positions), cap),
                 Zeros(KeptVertices(VertCount(positions),
                                    Stride(VertCount(positions), cap)) * 3),
                 0, 0)

ClampIdle ==
  /\ qPc = "idle"
  /\ clampArg = <<>>
  /\ maxVertices = 0
  /\ clamped = <<>>

ClampEntry ==
  /\ qPc = "entry"
  /\ clampArg \in UNION {CloudsOver(ClampPoints, n) : n \in 0..MaxClampLen}
  /\ maxVertices \in 1..MaxCap
  /\ clamped = <<>>

ClampCall ==
  /\ qPc = "entry"
  /\ clamped' = clampPositions(clampArg, maxVertices)
  /\ qPc' = "returned"
  /\ UNCHANGED <<clampArg, maxVertices>>
  /\ UNCHANGED qOthers

ClampNext == ClampCall

----------------------------------------------------------------------------
(* alignBottoms, src/unnamed/part_001 lines 17-38 (the same function is in
   part_002 lines 8-29).  Heights are whole numbers of half millionths, so
   that the threshold 1e-6 is UnitsPerMicro of them; every cloud holds at
   least one point. *)

\* lines 19-25: the least height of a cloud
MinHeight(t) == MinOf({At(t, 3 * k + 1) : k \in 0..(VertCount(t) - 1)})

\* line 26: Math.min(...mins)
Baseline(targets) == MinOf({MinHeight(targets[idx]) : idx \in 1..Len(targets)})

\* line 29: Math.abs(delta) < 1e-6
NegligibleBelowTwoMicro(delta) ==
  (IF delta < 0 THEN -delta ELSE delta) < 2 * UnitsPerMicro
Negligible(delta) == (IF delta < 0 THEN -delta ELSE delta) < UnitsPerMicro

\* lines 30-36: a new array, the height of every point lowered by delta
Shifted(t, delta) ==
  [k \in 1..Len(t) |-> IF k % 3 = 2 THEN t[k] - delta ELSE t[k]]

\* lines 17-38
alignBottoms(targets) ==
  IF Len(targets) = 0 THEN targets
  ELSE [idx \in 1..Len(targets) |->
          IF Negligible(MinHeight(targets[idx]) - Baseline(targets))
          THEN targets[idx]
          ELSE Shifted(targets[idx], MinHeight(targets[idx]) - Baseline(targets))]

AlignClouds == UNION {CloudsOver(AlignPoints, n) : n \in 1..MaxAlignLen}

AlignIdle ==
  /\ bPc = "idle"
  /\ alignTargets = <<>>
  /\ alignTargetsAtCall = <<>>
  /\ alignedTargets = <<>>

AlignEntry ==
  /\ bPc = "entry"
  /\ alignTargets \in UNION {[1..n -> AlignClouds] : n \in 0..MaxAlignClouds}
  /\ alignTargetsAtCall = alignTargets
  /\ alignedTargets = <<>>

\* the call writes to the arrays it allocates only
AlignCall ==
  /\ bPc = "entry"
  /\ alignedTargets' = alignBottoms(alignTargets)
  /\ bPc' = "returned"
  /\ UNCHANGED <<alignTargets, alignTargetsAtCall>>
  /\ UNCHANGED bOthers

AlignNext == AlignCall

----------------------------------------------------------------------------
(* loadModels, updateMorphing and animate of src/src/app/page.jsx *)

\* what /precomputed/<name>.bin holds: three points, the first with the
\* model's name as x, heights in the units of alignBottoms
BlobOf(name) == <<name, 2 * name, 0, 0, 2 * name + 1, 0, 0, 2 * name + 2, 1>>

\* lines 59-75: each cloud followed by copies of its first third
doubleVertices(targets) ==
  [idx \in 1..Len(targets) |->
     targets[idx] \o SubSeq(targets[idx], 1, (VertCount(targets[idx]) \div 3) * 3)]

\* lines 48-54: every order the Fisher-Yates loop can leave arr in
Shuffles(arr) ==
  {[k \in 1..Len(arr) |-> arr[p[k]]] :
     p \in {q \in [1..Len(arr) -> 1..Len(arr)] :
              \A a, b \in 1..Len(arr) : q[a] = q[b] => a = b}}

\* the subsequences of a sequence: what Promise.all leaves after the filter
\* of line 1057, for every set of fetches that fail
RECURSIVE SubSequences(_)
SubSequences(sq) ==
  IF sq = <<>> THEN {<<>>}
  ELSE LET rest == SubSequences(Tail(sq))
       IN rest \cup {<<Head(sq)>> \o r : r \in rest}

\* line 716: Math.min(delta, 100)
Uncapped(delta) == delta
CappedDelta(delta) == Min2(delta, DeltaCap)

PageIdle ==
  /\ lPc = "idle"
  /\ manifestModels = <<>>
  /\ valid = <<>>
  /\ morphTargets = <<>>
  /\ morphNames = <<>>
  /\ currentTargetIndex = 0
  /\ morphTime = 0
  /\ lastTimestamp = "null"
  /\ shownName = "none"
  /\ completed = FALSE

\* lines 330-333 and 1157: the page has mounted and calls loadModels
PageStart ==
  /\ lPc = "start"
  /\ manifestModels \in {m \in UNION {[1..n -> 1..MaxManifest] : n \in 0..MaxManifest} :
                           \A a, b \in 1..Len(m) : m[a] = m[b] => a = b}
  /\ valid = <<>>
  /\ morphTargets = <<>>
  /\ morphNames = <<>>
  /\ currentTargetIndex = 0
  /\ morphTime = 0
  /\ lastTimestamp = "null"
  /\ shownName = "none"
  /\ completed = FALSE

\* lines 1027-1042: no manifest, or a manifest without models
LoadModelsNoManifest ==
  /\ lPc = "start"
  /\ lPc' = "returned"
  /\ UNCHANGED <<manifestModels, valid, morphTargets, morphNames, currentTargetIndex,
                 morphTime, lastTimestamp, shownName, completed>>
  /\ UNCHANGED lOthers

\* lines 1044-1057: the blobs are fetched, the failed ones dropped
LoadModelsFetch ==
  /\ lPc = "start"
  /\ manifestModels # <<>>
  /\ \E names \in SubSequences(manifestModels) :
       valid' = [k \in 1..Len(names) |-> [name |-> names[k], positions |-> BlobOf(names[k])]]
  /\ lPc' = "fetched"
  /\ UNCHANGED <<manifestModels, morphTargets, morphNames, currentTargetIndex,
                 morphTime, lastTimestamp, shownName, completed>>
  /\ UNCHANGED lOthers

\* line 1058
LoadModelsNoneValid ==
  /\ lPc = "fetched"
  /\ valid = <<>>
  /\ lPc' = "returned"
  /\ UNCHANGED <<manifestModels, valid, morphTargets, morphNames, currentTargetIndex,
                 morphTime, lastTimestamp, shownName, completed>>
  /\ UNCHANGED lOthers

\* lines 1060-1110, one synchronous stretch
LoadModelsInstall ==
  /\ lPc = "fetched"
  /\ valid # <<>>
  /\ LET doubled == doubleVertices(alignBottoms([k \in 1..Len(valid) |-> valid[k].positions]))
         names0 == [k \in 1..Len(valid) |-> valid[k].name]
     IN \E restIndices \in Shuffles([k \in 1..(Len(valid) - 1) |-> k + 1]) :
          LET targets == <<doubled[1]>> \o [k \in 1..Len(restIndices) |-> doubled[restIndices[k]]]
              names == <<names0[1]>> \o [k \in 1..Len(restIndices) |-> names0[restIndices[k]]]
          IN /\ morphNames' = names
             /\ \E rest \in Shuffles(Tail(targets)) :
                  morphTargets' = <<targets[1]>> \o rest
             /\ shownName' = names[1]
  /\ currentTargetIndex' = 0
  /\ morphTime' = morphDurationBase \div 5
  /\ lastTimestamp' = "null"
  /\ lPc' = "done"
  /\ UNCHANGED <<manifestModels, valid, completed>>
  /\ UNCHANGED lOthers

\* lines 712-716, 816 and 664-710: a frame after the models are in place, delta
\* ms after the frame before it
AnimateFrame ==
  /\ lPc = "done"
  /\ \E delta \in FrameDeltas :
       LET cappedDelta == CappedDelta(IF lastTimestamp = "null" THEN 0 ELSE delta)
           numTargets == Len(morphTargets)
           targetIndex == (currentTargetIndex + 1) % numTargets
           isComplete == morphTime + cappedDelta >= morphDurationBase
       IN IF numTargets < 2
          THEN UNCHANGED <<currentTargetIndex, morphTime, shownName, completed>>
          ELSE IF isComplete
               THEN /\ shownName' = morphNames[targetIndex + 1]
                    /\ currentTargetIndex' = targetIndex
                    /\ morphTime' = 0
                    /\ completed' = TRUE
               ELSE /\ morphTime' = morphTime + cappedDelta
                    /\ completed' = FALSE
                    /\ UNCHANGED <<currentTargetIndex, shownName>>
  /\ lastTimestamp' = "set"
  /\ UNCHANGED <<lPc, manifestModels, valid, morphTargets, morphNames>>
  /\ UNCHANGED lOthers

PageNext ==
  \/ LoadModelsNoManifest
  \/ LoadModelsFetch
  \/ LoadModelsNoneValid
  \/ LoadModelsInstall
  \/ AnimateFrame

----------------------------------------------------------------------------
(* animate and updateMorphing of src/unnamed/part_001, lines 379-457.  The
   audio level is a whole number of tenths. *)

\* lines 455-457: morphDurationBase * (1 - Math.min(0.4, level * 0.5))
EffectiveDuration(level) == (morphDurationBase * (20 - Min2(8, level))) \div 20

MorphIdle ==
  /\ hPc = "idle"
  /\ numTargetsTs = 0
  /\ currentTargetIndexTs = 0
  /\ morphTimeTs = 0
  /\ effectiveDuration = 0
  /\ lastDelta = 0
  /\ steppedTs = FALSE

\* part_001 lines 631-633: the state loadModels leaves
MorphStart ==
  /\ hPc = "run"
  /\ numTargetsTs \in 1..MaxTargets
  /\ currentTargetIndexTs = 0
  /\ morphTimeTs = morphDurationBase \div 5
  /\ effectiveDuration = 0
  /\ lastDelta = 0
  /\ steppedTs = FALSE

\* lines 436-457, 529-530 and 379-399: one frame, delta ms after the frame
\* before it, at some audio level
AnimateFrameTs ==
  /\ hPc = "run"
  /\ \E delta \in FrameDeltas, level \in AudioLevels :
       LET cappedDelta == CappedDelta(delta)
           duration == EffectiveDuration(level)
           steps == (morphTimeTs + cappedDelta) \div duration
       IN /\ lastDelta' = cappedDelta
          /\ effectiveDuration' = duration
          /\ IF numTargetsTs < 2
             THEN UNCHANGED <<currentTargetIndexTs, morphTimeTs, steppedTs>>
             ELSE IF morphTimeTs + cappedDelta >= duration
                  THEN /\ currentTargetIndexTs' =
                            IF steps > 0 THEN (currentTargetIndexTs + steps) % numTargetsTs
                            ELSE currentTargetIndexTs
                       /\ steppedTs' = (steps > 0)
                       /\ morphTimeTs' = morphTimeTs + cappedDelta - steps * duration
                  ELSE /\ morphTimeTs' = morphTimeTs + cappedDelta
                       /\ steppedTs' = FALSE
                       /\ UNCHANGED currentTargetIndexTs
  /\ UNCHANGED <<hPc, numTargetsTs>>
  /\ UNCHANGED hOthers

MorphNext == AnimateFrameTs

----------------------------------------------------------------------------
(* loadPalettes and the palette render loop, src/src/app/page.tsx lines
   1090-1143 *)

\* the palettes palettes.json can hold: what generate-palettes stores for an
\* image
JsonPalettes == {[k \in 1..Len(p) |-> RGB(p[k])] : p \in ThiefPalettes}

\* line 1129: if (p1 && p2 && p1.length && p2.length)
BothNonEmpty(p1, p2) == Len(p1) > 0 /\ Len(p2) > 0

CycleIdle ==
  /\ wPc = "idle"
  /\ paletteValues = <<>>
  /\ palettes = <<>>
  /\ startTime = "null"
  /\ elapsed = 0
  /\ blended = <<>>
  /\ baseIndex = 0

\* lines 149-150: the page has mounted
CycleStart ==
  /\ wPc = "start"
  /\ paletteValues \in UNION {[1..n -> JsonPalettes] : n \in 0..MaxPalettes}
  /\ palettes = <<>>
  /\ startTime = "null"
  /\ elapsed = 0
  /\ blended = <<>>
  /\ baseIndex = 0

\* lines 1100 and 1111: nothing to cycle through
LoadPalettesNone ==
  /\ wPc = "start"
  /\ paletteValues = <<>>
  /\ wPc' = "none"
  /\ UNCHANGED <<paletteValues, palettes, startTime, elapsed, blended, baseIndex>>
  /\ UNCHANGED wOthers

\* lines 1098-1102: setPalettes(shuffle(values.slice()))
LoadPalettes ==
  /\ wPc = "start"
  /\ paletteValues # <<>>
  /\ palettes' \in Shuffles(paletteValues)
  /\ wPc' = "running"
  /\ UNCHANGED <<paletteValues, startTime, elapsed, blended, baseIndex>>
  /\ UNCHANGED wOthers

\* the time of the next frame: the first frame sets startTime (line 1118)
NextElapsed == IF startTime = "null" THEN {0} ELSE {elapsed + d : d \in CycleFrameSteps}

\* lines 1117-1136: a frame in which interpolatePalette returns or is not called
LoopFrame ==
  /\ wPc = "running"
  /\ \E e \in NextElapsed :
       LET total == Len(palettes)
           base == (e \div paletteMorphDuration) % total
           nextIndex == (base + 1) % total
           phase == <<(e % paletteMorphDuration) \div (paletteMorphDuration \div 4), 4>>
           p1 == palettes[base + 1]
           p2 == palettes[nextIndex + 1]
       IN /\ e <= MaxCycles * paletteMorphDuration
          /\ ~(BothNonEmpty(p1, p2) /\ InterpolateThrows(p1, p2))
          /\ elapsed' = e
          /\ baseIndex' = base
          /\ blended' = IF BothNonEmpty(p1, p2) THEN interpolatePalette(p1, p2, phase)
                        ELSE blended
  /\ startTime' = "set"
  /\ UNCHANGED <<wPc, paletteValues, palettes>>
  /\ UNCHANGED wOthers

\* lines 1117-1130: a frame in which interpolatePalette throws; the exception
\* leaves the callback before it asks for the next frame
LoopFrameThrows ==
  /\ wPc = "running"
  /\ \E e \in NextElapsed :
       LET total == Len(palettes)
           base == (e \div paletteMorphDuration) % total
           nextIndex == (base + 1) % total
           p1 == palettes[base + 1]
           p2 == palettes[nextIndex + 1]
       IN /\ e <= MaxCycles * paletteMorphDuration
          /\ BothNonEmpty(p1, p2) /\ InterpolateThrows(p1, p2)
          /\ elapsed' = e
          /\ baseIndex' = base
  /\ startTime' = "set"
  /\ wPc' = "thrown"
  /\ UNCHANGED <<paletteValues, palettes, blended>>
  /\ UNCHANGED wOthers

CycleNext ==
  \/ LoadPalettesNone
  \/ LoadPalettes
  \/ LoopFrame
  \/ LoopFrameThrows

----------------------------------------------------------------------------
(* Specifications *)

ReorderInit ==
  /\ ReorderStart
  /\ AdjustIdle /\ MainIdle /\ ClosestIdle /\ PairingIdle /\ InterpIdle
  /\ TrimIdle /\ NormIdle /\ PaletteIdle /\ ConvertIdle /\ ClampIdle
  /\ AlignIdle /\ PageIdle /\ MorphIdle /\ CycleIdle
SpecReorder == ReorderInit /\ [][ReorderNext]_vars

\* reorderToNearest is synchronous code: a call that has begun runs on, step
\* after step, until it returns or throws
SpecReorderFair == ReorderInit /\ [][ReorderNext]_vars /\ WF_vars(ReorderNext)

AdjustInit ==
  /\ AdjustStart
  /\ ReorderIdle /\ MainIdle /\ ClosestIdle /\ PairingIdle /\ InterpIdle
  /\ TrimIdle /\ NormIdle /\ PaletteIdle /\ ConvertIdle /\ ClampIdle
  /\ AlignIdle /\ PageIdle /\ MorphIdle /\ CycleIdle
AdjustNext == AdjustCall
SpecAdjust == AdjustInit /\ [][AdjustNext]_vars

MainInit ==
  /\ MainStart
  /\ ReorderIdle /\ AdjustIdle /\ ClosestIdle /\ PairingIdle
  /\ InterpIdle /\ TrimIdle /\ NormIdle /\ PaletteIdle /\ ConvertIdle
  /\ ClampIdle /\ AlignIdle /\ PageIdle /\ MorphIdle /\ CycleIdle
SpecMain == MainInit /\ [][MainNext]_vars

ClosestInit ==
  /\ ClosestEntry
  /\ ReorderIdle /\ AdjustIdle /\ MainIdle /\ PairingIdle /\ InterpIdle
  /\ TrimIdle /\ NormIdle /\ PaletteIdle /\ ConvertIdle /\ ClampIdle
  /\ AlignIdle /\ PageIdle /\ MorphIdle /\ CycleIdle
SpecClosest == ClosestInit /\ [][ClosestNext]_vars

PairingInit ==
  /\ PairingEntry
  /\ ReorderIdle /\ AdjustIdle /\ MainIdle /\ ClosestIdle /\ InterpIdle
  /\ TrimIdle /\ NormIdle /\ PaletteIdle /\ ConvertIdle /\ ClampIdle
  /\ AlignIdle /\ PageIdle /\ MorphIdle /\ CycleIdle
SpecPairing == PairingInit /\ [][PairingNext]_vars

InterpInit ==
  /\ InterpEntry
  /\ ReorderIdle /\ AdjustIdle /\ MainIdle /\ ClosestIdle /\ PairingIdle
  /\ TrimIdle /\ NormIdle /\ PaletteIdle /\ ConvertIdle /\ ClampIdle
  /\ AlignIdle /\ PageIdle /\ MorphIdle /\ CycleIdle
SpecInterp == InterpInit /\ [][InterpNext]_vars

TrimInit ==
  /\ TrimEntry
  /\ ReorderIdle /\ AdjustIdle /\ MainIdle /\ ClosestIdle /\ PairingIdle
  /\ InterpIdle /\ NormIdle /\ PaletteIdle /\ ConvertIdle /\ ClampIdle
  /\ AlignIdle /\ PageIdle /\ MorphIdle /\ CycleIdle
SpecTrim == TrimInit /\ [][TrimNext]_vars

NormInit ==
  /\ NormEntry
  /\ ReorderIdle /\ AdjustIdle /\ MainIdle /\ ClosestIdle /\ PairingIdle
  /\ InterpIdle /\ TrimIdle /\ PaletteIdle /\ ConvertIdle /\ ClampIdle
  /\ AlignIdle /\ PageIdle /\ MorphIdle /\ CycleIdle
SpecNorm == NormInit /\ [][NormNext]_vars

PaletteInit ==
  /\ PaletteStart
  /\ ReorderIdle /\ AdjustIdle /\ MainIdle /\ ClosestIdle /\ PairingIdle
  /\ InterpIdle /\ TrimIdle /\ NormIdle /\ ConvertIdle /\ ClampIdle
  /\ AlignIdle /\ PageIdle /\ MorphIdle /\ CycleIdle
SpecPalette == PaletteInit /\ [][PaletteNext]_vars

ConvertInit ==
  /\ ConvertEntry
  /\ ReorderIdle /\ AdjustIdle /\ MainIdle /\ ClosestIdle /\ PairingIdle
  /\ InterpIdle /\ TrimIdle /\ NormIdle /\ PaletteIdle /\ ClampIdle
  /\ AlignIdle /\ PageIdle /\ MorphIdle /\ CycleIdle
SpecConvert == ConvertInit /\ [][ConvertNext]_vars

ClampInit ==
  /\ ClampEntry
  /\ ReorderIdle /\ AdjustIdle /\ MainIdle /\ ClosestIdle /\ PairingIdle
  /\ InterpIdle /\ TrimIdle /\ NormIdle /\ PaletteIdle /\ ConvertIdle
  /\ AlignIdle /\ PageIdle /\ MorphIdle /\ CycleIdle
SpecClamp == ClampInit /\ [][ClampNext]_vars

AlignInit ==
  /\ AlignEntry
  /\ ReorderIdle /\ AdjustIdle /\ MainIdle /\ ClosestIdle /\ PairingIdle
  /\ InterpIdle /\ TrimIdle /\ NormIdle /\ PaletteIdle /\ ConvertIdle
  /\ ClampIdle /\ PageIdle /\ MorphIdle /\ CycleIdle
SpecAlign == AlignInit /\ [][AlignNext]_vars

PageInit ==
  /\ PageStart
  /\ ReorderIdle /\ AdjustIdle /\ MainIdle /\ ClosestIdle /\ PairingIdle
  /\ InterpIdle /\ TrimIdle /\ NormIdle /\ PaletteIdle /\ ConvertIdle
  /\ ClampIdle /\ AlignIdle /\ MorphIdle /\ CycleIdle
SpecPage == PageInit /\ [][PageNext]_vars

MorphInit ==
  /\ MorphStart
  /\ ReorderIdle /\ AdjustIdle /\ MainIdle /\ ClosestIdle /\ PairingIdle
  /\ InterpIdle /\ TrimIdle /\ NormIdle /\ PaletteIdle /\ ConvertIdle
  /\ ClampIdle /\ AlignIdle /\ PageIdle /\ CycleIdle
SpecMorph == MorphInit /\ [][MorphNext]_vars

CycleInit ==
  /\ CycleStart
  /\ ReorderIdle /\ AdjustIdle /\ MainIdle /\ ClosestIdle /\ PairingIdle
  /\ InterpIdle /\ TrimIdle /\ NormIdle /\ PaletteIdle /\ ConvertIdle
  /\ ClampIdle /\ AlignIdle /\ PageIdle /\ MorphIdle
SpecCycle == CycleInit /\ [][CycleNext]_vars

\* the two producers of RGB colours together: a conversion or an interpolation
ChannelsInit == ConvertInit \/ InterpInit
ChannelsNext ==
  \/ CallRgbToLab
  \/ CallLabToRgb
  \/ InterpCall
  \/ InterpThrow
SpecChannels == ChannelsInit /\ [][ChannelsNext]_vars

\* the two pages together.  A frame is a callback of requestAnimationFrame,
\* which every frame asks for again (part_001 line 551, page.jsx line 916): the
\* browser goes on calling it
MorphingInit == PageInit \/ MorphInit
MorphingNext ==
  \/ LoadModelsNoManifest
  \/ LoadModelsFetch
  \/ LoadModelsNoneValid
  \/ LoadModelsInstall
  \/ AnimateFrame
  \/ AnimateFrameTs
SpecMorphing == MorphingInit /\ [][MorphingNext]_vars

----------------------------------------------------------------------------
(* Claims about reorderToNearest *)

\* C1: when reorderToNearest returns for clouds of equal length N, the N
\* reference indices were given N pairwise distinct target indices, every
\* target index 0..N-1 was chosen exactly once, and the output holds at each
\* index the target point chosen for it: a permutation of the target's points.
C1_Bijection ==
  rPc = "returned" =>
    LET n == VertCount(targetPositions)
    IN /\ Len(assigned) = n
       /\ \A a, b \in 1..Len(assigned) : a # b => assigned[a] # assigned[b]
       /\ \A t \in 0..(n - 1) : Cardinality({a \in 1..Len(assigned) : assigned[a] = t}) = 1
       /\ Len(reordered) = Len(targetPositions)
       /\ \A a \in 1..Len(assigned) :
            PointAt(reordered, a - 1) = PointAt(targetPositions, assigned[a])

\* a run that returned after the linear scan gave reference 0 a target other than 0
C1_Witness ==
  /\ rPc = "returned"
  /\ VertCount(targetPositions) >= 3
  /\ assigned[1] # 0
  /\ assigned[2] # 1

\* C2: when reference and target are the same cloud, repeated points
\* included, the returned cloud equals the input at every index.
C2_Identity ==
  (rPc = "returned" /\ referencePositions = targetPositions) =>
    reordered = targetPositions

\* an identity run over a cloud with a repeated point and a different one between
C2_Witness ==
  /\ rPc = "returned"
  /\ referencePositions = targetPositions
  /\ VertCount(targetPositions) >= 3
  /\ PointAt(targetPositions, 0) = PointAt(targetPositions, 2)
  /\ PointAt(targetPositions, 0) # PointAt(targetPositions, 1)
  /\ reordered = targetPositions

\* C3: with arrays of different lengths the call throws at once: the run is
\* at its entry or has thrown, no bounding box, bucket, availability flag or
\* assignment exists and no array is returned; and it throws only then.
C3_LengthMismatchThrows ==
  /\ Len(targetPositions) # Len(referencePositions) =>
       /\ rPc \in {"entry", "thrown"}
       /\ grid = "none"
       /\ buckets = EmptyBuckets
       /\ available = <<>>
       /\ assigned = <<>>
       /\ reordered = "none"
  /\ rPc = "thrown" => Len(targetPositions) # Len(referencePositions)

\* a run that threw on two non-empty clouds, the target the longer one
C3_Witness ==
  /\ rPc = "thrown"
  /\ Len(referencePositions) > 0
  /\ Len(targetPositions) > Len(referencePositions)

\* the cell of target idx and of reference i, and the Chebyshev distance of
\* two cells
TargetCell(idx) ==
  CellOf(At(targetPositions, idx * 3), At(targetPositions, idx * 3 + 1),
         At(targetPositions, idx * 3 + 2), grid)
RefCell(i) ==
  CellOf(At(referencePositions, i * 3), At(referencePositions, i * 3 + 1),
         At(referencePositions, i * 3 + 2), grid)
CellRadius(c, d) ==
  MaxOf({IF c[a] < d[a] THEN d[a] - c[a] ELSE c[a] - d[a] : a \in 1..3})

\* the targets still available, and those of them within the radius cap of
\* reference i
AvailableNow == {idx \in 0..(VertCount(targetPositions) - 1) : available[idx + 1]}
WithinCap(i) == {idx \in AvailableNow : CellRadius(TargetCell(idx), RefCell(i)) <= 2}

\* squared distance of reference i and target idx
RefDist2(i, idx) ==
  Dist2(targetPositions, idx, At(referencePositions, i * 3),
        At(referencePositions, i * 3 + 1), At(referencePositions, i * 3 + 2))

\* whether the search at radius r around reference i meets target j before
\* target k: cells in the order of the dx, dy, dz loops, and within one cell
\* the lower index first
MetBefore(i, r, j, k) ==
  \/ CubePos(r, RefCell(i), TargetCell(j)) < CubePos(r, RefCell(i), TargetCell(k))
  \/ TargetCell(j) = TargetCell(k) /\ j < k

\* a step of the main loop: reference rI gets its target, assigned'[rI + 1]
AssignStep == rPc = "loop" /\ rI' = rI + 1

C18_FallbackScan ==
  [][AssignStep =>
       LET chosen == assigned'[rI + 1]
       IN /\ chosen = -1 <=> AvailableNow = {}
          /\ (AvailableNow # {} /\ WithinCap(rI) = {}) =>
               /\ chosen \in AvailableNow
               /\ \A j \in AvailableNow :
                    \/ RefDist2(rI, chosen) < RefDist2(rI, j)
                    \/ RefDist2(rI, chosen) = RefDist2(rI, j) /\ chosen <= j]_vars

\* reference 0 at (40,1,0) had no target within radius 2 and took the nearer
\* of the far targets, the first of two equal ones
C18_Witness ==
  /\ rPc = "loop"
  /\ rI = 1
  /\ PointAt(referencePositions, 0) = <<40, 1, 0>>
  /\ VertCount(targetPositions) = 3
  /\ PointAt(targetPositions, 0) = <<0, 3, 0>>
  /\ PointAt(targetPositions, 1) = <<0, 0, 0>>
  /\ PointAt(targetPositions, 2) = <<0, 0, 0>>
  /\ CellRadius(TargetCell(1), RefCell(0)) > 2
  /\ assigned = <<1>>

\* C19: in the main loop the available targets are all N at the start and
\* N minus the number of processed reference indices later; a step handles
\* reference index rI, the next in ascending order, takes exactly its target
\* out of the available ones and puts none back; at the return none is
\* available and every reference index holds a target.
C19_AvailableOnlyShrinks ==
  /\ [](rPc \in {"loop", "returned"} =>
         /\ Len(assigned) = rI
         /\ Cardinality(AvailableNow) = VertCount(targetPositions) - rI
         /\ \A k \in 1..Len(assigned) : assigned[k] \notin AvailableNow
         /\ rPc = "returned" =>
              /\ AvailableNow = {}
              /\ rI = VertCount(referencePositions)
              /\ \A k \in 1..rI : assigned[k] \in 0..(VertCount(targetPositions) - 1))
  /\ [][AssignStep =>
          /\ AvailableNow \ {assigned'[rI + 1]}
               = {idx \in 0..(VertCount(targetPositions) - 1) : available'[idx + 1]}
          /\ assigned'[rI + 1] \in AvailableNow
          /\ \A k \in 1..rI : assigned'[k] = assigned[k]]_vars

\* a finished run over three targets, the last of them taken first
C19_Witness ==
  /\ rPc = "returned"
  /\ rI = 3
  /\ assigned[1] = 2
  /\ AvailableNow = {}

\* the bucket keys under which target idx is held, and how often a bucket
\* holds it
KeysHolding(idx) ==
  {key \in DOMAIN buckets : \E k \in 1..Len(buckets[key]) : buckets[key][k] = idx}
TimesHeld(idx, key) == Cardinality({k \in 1..Len(buckets[key]) : buckets[key][k] = idx})

\* C30: during the main loop the buckets and the availability flags agree: a
\* target index is in a bucket exactly when it is available, an available
\* index is held once, in the bucket of the cell of its own coordinates, and
\* removeFromBucket finds the index it is asked to remove.
C30_BucketsMatchAvailable ==
  /\ [](rPc \in {"loop", "returned"} =>
         \A idx \in 0..(VertCount(targetPositions) - 1) :
           /\ available[idx + 1] <=> KeysHolding(idx) # {}
           /\ available[idx + 1] =>
                /\ KeysHolding(idx) = {TargetCell(idx)}
                /\ TimesHeld(idx, TargetCell(idx)) = 1)
  /\ [][AssignStep /\ assigned'[rI + 1] # -1 =>
          /\ TargetCell(assigned'[rI + 1]) \in DOMAIN buckets
          /\ IndexOf(buckets[TargetCell(assigned'[rI + 1])], assigned'[rI + 1]) # 0
          /\ \A key \in DOMAIN buckets' : \A k \in 1..Len(buckets'[key]) :
               buckets'[key][k] # assigned'[rI + 1]]_vars

\* the loop under way over three targets, one taken out of a bucket that
\* still holds another target, one alone in its bucket
C30_Witness ==
  /\ rPc = "loop"
  /\ rI = 1
  /\ VertCount(targetPositions) = 3
  /\ \E key \in DOMAIN buckets : Len(buckets[key]) = 1 /\ TargetCell(assigned[1]) = key
  /\ \E key \in DOMAIN buckets : Len(buckets[key]) = 1 /\ TargetCell(assigned[1]) # key

\* C24: a call on two clouds of the same length returns, after as many
\* iterations of the main loop as there are points.
C24_TerminatesAfterNSteps ==
  /\ (rPc = "entry" /\ ~LengthsDiffer(referencePositions, targetPositions))
       ~> (rPc = "returned" /\ rI = VertCount(referencePositions)
                            /\ Len(assigned) = VertCount(referencePositions))
  /\ [][rPc' = "returned" => rI' = VertCount(referencePositions)]_vars
  /\ [][AssignStep => rI < VertCount(referencePositions)]_vars

\* a call on clouds of three points that has returned
C24_Witness ==
  /\ rPc = "returned"
  /\ VertCount(referencePositions) = 3
  /\ Len(assigned) = 3
  /\ rI = 3

----------------------------------------------------------------------------
(* Claims about adjustVertexCount *)

\* C7: adjustVertexCount returns an array of exactly finalCount vertices
\* whose first min(L, finalCount) vertices are the input's, in order, and the
\* input array still holds what it held at the call.
C7_AdjustCopiesPrefix ==
  aPc = "returned" =>
    /\ Len(adjustedPositions) = aFinalCount * 3
    /\ \A i \in 0..(Min2(VertCount(aPositionsAtCall), aFinalCount) - 1) :
         PointAt(adjustedPositions, i) = PointAt(aPositionsAtCall, i)
    /\ aPositions = aPositionsAtCall

\* a call that truncated a cloud of at least three vertices
C7_Witness ==
  /\ aPc = "returned"
  /\ VertCount(aPositionsAtCall) >= 3
  /\ aFinalCount = 2
  /\ Len(adjustedPositions) = 6

\* C8: for finalCount greater than the cloud length L >= 1, each of the last
\* finalCount - L vertices of the output is the input's final vertex.
C8_PadsWithLastPoint ==
  (aPc = "returned" /\ VertCount(aPositionsAtCall) >= 1
     /\ aFinalCount > VertCount(aPositionsAtCall)) =>
    \A i \in VertCount(aPositionsAtCall)..(aFinalCount - 1) :
      PointAt(adjustedPositions, i)
        = PointAt(aPositionsAtCall, VertCount(aPositionsAtCall) - 1)

\* a call that padded two slots of a cloud whose first and last vertex differ
C8_Witness ==
  /\ aPc = "returned"
  /\ VertCount(aPositionsAtCall) >= 2
  /\ aFinalCount >= VertCount(aPositionsAtCall) + 2
  /\ PointAt(aPositionsAtCall, 0) # PointAt(aPositionsAtCall, VertCount(aPositionsAtCall) - 1)
  /\ PointAt(adjustedPositions, aFinalCount - 1)
       = PointAt(aPositionsAtCall, VertCount(aPositionsAtCall) - 1)

----------------------------------------------------------------------------
(* Claims about trimBottomRow and normalizePositions *)

\* the vertices of the argument whose height is strictly above
\* minY + 0.01 * (maxY - minY)
AboveThreshold ==
  LET ys == {At(trimPositions, i * 3 + 1) : i \in 0..(VertCount(trimPositions) - 1)}
  IN {i \in 0..(VertCount(trimPositions) - 1) :
        100 * At(trimPositions, i * 3 + 1) > 100 * MinOf(ys) + (MaxOf(ys) - MinOf(ys))}

\* C20: trimBottomRow returns the vertices whose height is strictly above
\* minY + 0.01 * (maxY - minY), in their original order; when none is, the
\* argument itself; and never an empty cloud for a non-empty one.
C20_TrimKeepsAboveThreshold ==
  tPc = "returned" =>
    IF Len(trimPositions) = 0 THEN trimmed = <<>>
    ELSE /\ Len(trimmed) > 0
         /\ AboveThreshold = {} => trimmed = trimPositions
         /\ AboveThreshold # {} =>
              /\ Len(trimmed) = 3 * Cardinality(AboveThreshold)
              /\ \A i \in AboveThreshold :
                   PointAt(trimmed, Cardinality({j \in AboveThreshold : j < i}))
                     = PointAt(trimPositions, i)

\* a cloud of heights 1, 100, 0: the vertex at the threshold and the one
\* below it are dropped
C20_Witness ==
  /\ tPc = "returned"
  /\ trimPositions = <<1, 1, 0, 3, 100, 0, 0, 0, 0>>
  /\ trimmed = <<3, 100, 0>>

\* extent of a flat array of numbers along axis c, and its largest extent
Extent(arr, c) == MaxOf(Axis(arr, c)) - MinOf(Axis(arr, c))
LargestExtent(arr) == MaxOf({Extent(arr, c) : c \in 0..2})

\* C15: normalizePositions returns as many coordinates as it got.  For a
\* cloud of non-zero extent the result's bounding box is centred at the
\* origin (min + max = 0 on each axis), its largest dimension is 3, and
\* every difference of two coordinates of one axis is the argument's times
\* the same factor 3 / maxDim (same vertices, same order, one scale for all
\* axes).  For a cloud of zero extent the differences are the argument's
\* (scale 1) and the box is centred.
C15_NormalizeCentresAndScales ==
  (nPc = "returned" /\ Len(normPositions) > 0) =>
    LET num == normalized.num
        den == normalized.den
        maxDim == LargestExtent(normPositions)
    IN /\ Len(num) = Len(normPositions)
       /\ den > 0
       /\ \A c \in 0..2 : MinOf(Axis(num, c)) + MaxOf(Axis(num, c)) = 0
       /\ maxDim > 0 =>
            /\ LargestExtent(num) = 3 * den
            /\ \A k, l \in 0..(Len(num) - 1) :
                 k % 3 = l % 3 =>
                   (At(num, k) - At(num, l)) * maxDim
                     = 3 * den * (At(normPositions, k) - At(normPositions, l))
       /\ maxDim = 0 =>
            \A k, l \in 0..(Len(num) - 1) :
              k % 3 = l % 3 =>
                At(num, k) - At(num, l) = den * (At(normPositions, k) - At(normPositions, l))

\* a cloud whose largest extent, 6, is along z: the result spans -1.5 .. 1.5
\* on z, -0.25 .. 0.25 on x
C15_Witness ==
  /\ nPc = "returned"
  /\ normPositions = <<0, 0, 0, 1, 2, 6>>
  /\ normalized = [num |-> <<-3, -6, -18, 3, 6, 18>>, den |-> 12]

----------------------------------------------------------------------------
(* Claims about main *)

FilesOfKind(kind) == {k \in 1..Len(files) : files[k].kind = kind}

\* C4: in a run that wrote a manifest, the shared vertex count is the largest
\* vertex count among the loaded (normalized) models, every model has a blob
\* and every blob holds exactly that many vertices, and the manifest and every
\* per-model record carry that count as vertexCount.
C4_SharedVertexCount ==
  FilesOfKind("manifest") # {} =>
    LET n == MaxOf({VertCount(loaded[k].positions) : k \in 1..Len(loaded)})
    IN /\ targetVertexCount = n
       /\ \A k \in FilesOfKind("manifest") : files[k].data.vertexCount = n
       /\ \A k \in FilesOfKind("bin") : Len(files[k].data) = n * 3
       /\ \A k \in FilesOfKind("meta") : files[k].data.vertexCount = n
       /\ \A m \in 1..Len(loaded) :
            /\ \E k \in FilesOfKind("bin") : files[k].name = loaded[m].name
            /\ \E k \in FilesOfKind("meta") : files[k].name = loaded[m].name

\* a finished run over three models of 1, 3 and 2 vertices
C4_Witness ==
  /\ mPc = "done"
  /\ Len(loaded) = 3
  /\ VertCount(loaded[1].positions) = 1
  /\ VertCount(loaded[2].positions) = 3
  /\ VertCount(loaded[3].positions) = 2
  /\ files[Len(files)].kind = "manifest"
  /\ files[Len(files)].data.vertexCount = 3

\* C13: when loading a model fails the run ends with exit code 1 and has
\* written no file (no blob, no per-model record, no manifest); and a run
\* that has written a file has loaded every model before.
C13_LoadFailureAborts ==
  /\ (Len(loaded) < Len(glbFiles) /\ mPc # "load") => (mPc = "exit1" /\ files = <<>>)
  /\ files # <<>> => Len(loaded) = Len(glbFiles)

\* a run of three models that failed on the third
C13_Witness ==
  /\ mPc = "exit1"
  /\ Len(glbFiles) = 3
  /\ Len(loaded) = 2
  /\ files = <<>>

\* the cloud of loaded model k brought to the shared vertex count
Equalized(k) ==
  adjustVertexCount(loaded[k].positions,
                    MaxOf({VertCount(loaded[j].positions) : j \in 1..Len(loaded)}))

\* C23: the first loaded model is the reference: its cloud is emitted as
\* equalized, in its own order; the cloud of every other model is what
\* reorderToNearest returns for the first model's equalized cloud and that
\* model's equalized cloud, never for a cloud aligned before.
C23_FirstModelIsReference ==
  /\ \A k \in 1..Len(processed) :
       /\ processed[k].name = loaded[k].name
       /\ processed[k].positions =
            IF k = 1 THEN Equalized(1)
            ELSE reorderToNearest(Equalized(1), Equalized(k)).value
  /\ \A f \in 1..Len(files) :
       files[f].kind = "bin" =>
         \E k \in 1..Len(processed) :
           /\ files[f].name = processed[k].name
           /\ files[f].data = processed[k].positions

\* a finished run of three models in which the second came out of the
\* alignment in another order than the third went in with, so that aligning
\* the third against the second would have given another cloud
C23_Witness ==
  /\ mPc = "done"
  /\ Len(processed) = 3
  /\ processed[2].positions # processed[1].positions
  /\ reorderToNearest(processed[2].positions, Equalized(3)).value # processed[3].positions

\* C28: the manifest is the last file of a run, written after the blob and
\* the record of every model; it lists the processed models in load order,
\* the reference first; and a run that failed has written no manifest.
C28_ManifestWrittenLast ==
  /\ \A f \in FilesOfKind("manifest") :
       /\ f = Len(files)
       /\ Len(processed) = Len(loaded)
       /\ files[f].data.models = [k \in 1..Len(loaded) |-> loaded[k].name]
       /\ \A k \in 1..Len(loaded) :
            /\ \E b \in FilesOfKind("bin") : b < f /\ files[b].name = loaded[k].name
            /\ \E m \in FilesOfKind("meta") : m < f /\ files[m].name = loaded[k].name
  /\ mPc = "exit1" => FilesOfKind("manifest") = {}
  /\ mPc = "done" => FilesOfKind("manifest") # {}

\* a run that failed after writing the files of the first of two models
C28_Witness ==
  /\ mPc = "exit1"
  /\ Len(processed) = 2
  /\ Len(files) = 2
  /\ FilesOfKind("manifest") = {}

----------------------------------------------------------------------------
(* Claims about the palette batch *)

\* the images handled so far whose extraction succeeded
Succeeded == {imageFiles[k] : k \in {j \in 1..Len(extracted) : extracted[j]}}

\* C14: an extraction that throws is caught: its image is missing from the
\* mapping, which holds exactly the images extracted so far; the run does not
\* end on it but goes on to every later image; and palettes.json, when the
\* run writes it, holds exactly the images whose extraction succeeded.
C14_FailedImageOmitted ==
  /\ Len(extracted) = gI
  /\ DOMAIN result = Succeeded
  /\ (gPc = "exit1" /\ extracted # <<>>) => gI = Len(imageFiles)
  /\ palettesJson.written <=> gPc = "done"
  /\ gPc = "done" =>
       /\ gI = Len(imageFiles)
       /\ DOMAIN palettesJson.data = Succeeded
       /\ \A f \in Succeeded : palettesJson.data[f] = result[f]

\* three images, the second failed: palettes.json holds the first and third
C14_Witness ==
  /\ gPc = "done"
  /\ Len(imageFiles) = 3
  /\ extracted = <<TRUE, FALSE, TRUE>>
  /\ DOMAIN palettesJson.data = {1, 3}

----------------------------------------------------------------------------
(* Claims about colors.ts *)

\* the column results pairs with row x, where there is one
PartnerOf(x) == (CHOOSE k \in 1..Len(results) : results[k][1] = x)

\* C5: for palettes A (size M) and B (size N), any M, N >= 1, the
\* result has length M and its element i is the B-colour paired with A[i].
C5_AsStated ==
  (pPc = "returned" /\ Len(colors1) >= 1 /\ Len(colors2) >= 1) =>
    /\ Len(sortedColors) = Len(colors1)
    /\ \A x \in 0..(Len(colors1) - 1) :
         /\ \E k \in 1..Len(results) : results[k][1] = x
         /\ At(sortedColors, x) = At(colors2, results[PartnerOf(x)][2])

\* the Lab distance of A[x] and B[y], the entry of the cost matrix
PairCost(x, y) == colorDistance(At(colors1, x), At(colors2, y))

RECURSIVE TotalCost(_)
TotalCost(pairs) ==
  IF pairs = <<>> THEN 0
  ELSE PairCost(Head(pairs)[1], Head(pairs)[2]) + TotalCost(Tail(pairs))

\* C6: the pairing is one-to-one (no B-entry with two A-entries, no A-entry
\* twice), has min(M, N) pairs and its total Lab distance is minimal among
\* the one-to-one partial matchings of that size; a palette paired with
\* itself, two different colours, is paired 0-0 and 1-1 (total cost 0), and
\* so is the cost matrix [[0,10],[10,0]].
C6_OptimalOneToOne ==
  /\ munkres(<<(<<0, 10>>), (<<10, 0>>)>>) = {<<(<<0, 0>>), (<<1, 1>>)>>}
  /\ pPc = "returned" =>
       /\ Len(results) = Min2(Len(colors1), Len(colors2))
       /\ \A j, k \in 1..Len(results) :
            j # k => results[j][1] # results[k][1] /\ results[j][2] # results[k][2]
       /\ \A k \in 1..Len(results) :
            /\ results[k][1] \in 0..(Len(colors1) - 1)
            /\ results[k][2] \in 0..(Len(colors2) - 1)
       /\ \A f \in PartialMatchings([x \in 1..Len(colors1) |-> [y \in 1..Len(colors2) |-> 0]]) :
            TotalCost(results) <= TotalCost(PairsOf(f))
       /\ (Len(colors1) = 2 /\ colors2 = colors1 /\ colors1[1] # colors1[2]) =>
            results = <<(<<0, 0>>), (<<1, 1>>)>>

\* a call with M = N = 2 and four different costs, where the cheaper of the
\* two matchings is the crossed one
C6_Witness ==
  /\ pPc = "returned"
  /\ Len(colors1) = 2
  /\ Len(colors2) = 2
  /\ results = <<(<<0, 1>>), (<<1, 0>>)>>
  /\ PairCost(0, 1) + PairCost(1, 0) < PairCost(0, 0) + PairCost(1, 1)

\* C12: sortColorsByPairing called with an empty palette A builds an empty
\* cost matrix and fails with an error at once: the call does not return, and
\* no result (an empty palette or any other) comes out of it.
C12_EmptyMatrixFails ==
  (Len(colors1) = 0 /\ pPc # "entry") =>
    /\ pPc = "thrown"
    /\ results = <<>>
    /\ sortedColors = <<>>

\* a call with an empty A and a non-empty B that has thrown
C12_Witness ==
  /\ pPc = "thrown"
  /\ colors1 = <<>>
  /\ Len(colors2) = 2

\* whether the three channels of a colour lie in [0,255]
InRange(color) == color.r \in 0..255 /\ color.g \in 0..255 /\ color.b \in 0..255

C9_FirstNearest ==
  (cPc = "returned" /\ Len(paletteLab) > 0) =>
    LET D(k) == VariantDistance(cVariant, labColor, At(paletteLab, k))
    IN /\ closestIndex \in 0..(Len(paletteLab) - 1)
       /\ \A k \in 0..(Len(paletteLab) - 1) : D(closestIndex) <= D(k)
       /\ \A k \in 0..(closestIndex - 1) : D(k) > D(closestIndex)
       /\ (\E k \in 0..(Len(paletteLab) - 1) : At(paletteLab, k) = labColor) =>
            /\ At(paletteLab, closestIndex) = labColor
            /\ D(closestIndex) = 0

\* a lightness-weighted lookup that returned index 1 although a different
\* colour later in the list is at the same distance
C9_Witness ==
  /\ cPc = "returned"
  /\ cVariant = "l"
  /\ Len(paletteLab) = 3
  /\ closestIndex = 1
  /\ paletteLab[3] # paletteLab[2]
  /\ LabDistanceL(labColor, paletteLab[3]) = LabDistanceL(labColor, paletteLab[2])
  /\ LabDistanceL(labColor, paletteLab[1]) > LabDistanceL(labColor, paletteLab[2])

\* whether v is x = num / den rounded to the nearest integer, halves upwards:
\* v - 1/2 <= x < v + 1/2
IsRoundHalfUp(v, num, den) ==
  /\ (2 * v - 1) * den <= 2 * num
  /\ 2 * num < (2 * v + 1) * den

\* C10: for palettes of equal length the result has that length and each
\* channel is c1 + (c2 - c1) * t rounded to the nearest integer, halves
\* upwards; t = 0 gives palette 1, t = 1 gives palette 2, and black blended
\* with white at t = 1/2 gives 128 in every channel.
C10_InterpolateRounds ==
  (iPc = "returned" /\ Len(palette1) = Len(palette2)) =>
    LET T == blend[1]
        Dn == blend[2]
    IN /\ Len(newPalette) = Len(palette1)
       /\ \A k \in 1..Len(palette1) :
            /\ IsRoundHalfUp(newPalette[k].r,
                  palette1[k].r * Dn + (palette2[k].r - palette1[k].r) * T, Dn)
            /\ IsRoundHalfUp(newPalette[k].g,
                  palette1[k].g * Dn + (palette2[k].g - palette1[k].g) * T, Dn)
            /\ IsRoundHalfUp(newPalette[k].b,
                  palette1[k].b * Dn + (palette2[k].b - palette1[k].b) * T, Dn)
       /\ T = 0 => newPalette = palette1
       /\ T = Dn => newPalette = palette2
       /\ (blend = <<1, 2>> /\ palette1 = <<[r |-> 0, g |-> 0, b |-> 0]>>
             /\ palette2 = <<[r |-> 255, g |-> 255, b |-> 255]>>) =>
            newPalette = <<[r |-> 128, g |-> 128, b |-> 128]>>

\* black blended with white at t = 1/2
C10_Witness ==
  /\ iPc = "returned"
  /\ blend = <<1, 2>>
  /\ palette1 = <<[r |-> 0, g |-> 0, b |-> 0]>>
  /\ palette2 = <<[r |-> 255, g |-> 255, b |-> 255]>>
  /\ newPalette = <<[r |-> 128, g |-> 128, b |-> 128]>>

----------------------------------------------------------------------------
(* Claims about clampPositions *)

\* the stride of the claims: the least s with s * cap >= count
CeilStride == CHOOSE s \in 1..(VertCount(clampArg) + 1) :
                /\ s * maxVertices >= VertCount(clampArg)
                /\ \A o \in 1..(s - 1) : o * maxVertices < VertCount(clampArg)

\* the indices 0, s, 2s, ... below the count
StrideIndices == {i \in 0..(VertCount(clampArg) - 1) : i % CeilStride = 0}

\* C21, as stated: over the cap, the result is exactly the points at the
\* indices 0, s, 2s, ... (every k * s below the count), in that order.
C21_AsStated ==
  (qPc = "returned" /\ VertCount(clampArg) > maxVertices) =>
    /\ VertCount(clamped) = Cardinality(StrideIndices)
    /\ \A k \in 0..(VertCount(clamped) - 1) :
         PointAt(clamped, k) = PointAt(clampArg, k * CeilStride)

\* C22: a cloud within the cap is returned as it is; a cloud over the cap gives
\* at least one point and at most cap points, each a whole point of the input.
C22_AtMostCap ==
  qPc = "returned" =>
    /\ VertCount(clampArg) <= maxVertices => clamped = clampArg
    /\ VertCount(clampArg) > maxVertices =>
         /\ Len(clamped) % 3 = 0
         /\ VertCount(clamped) >= 1
         /\ VertCount(clamped) <= maxVertices
         /\ \A k \in 0..(VertCount(clamped) - 1) :
              \E i \in 0..(VertCount(clampArg) - 1) :
                PointAt(clamped, k) = PointAt(clampArg, i)

\* five points under a cap of three: two points come back
C22_Witness ==
  /\ qPc = "returned"
  /\ VertCount(clampArg) = 5
  /\ maxVertices = 3
  /\ VertCount(clamped) = 2

----------------------------------------------------------------------------
(* Claims about alignBottoms *)

\* C29: the clouds alignBottoms returns have their least heights within 1e-6
\* of the least height of all the inputs; each has as many points as its
\* input, point k being point k of the input with the same x and z and with
\* the height moved by one amount for the whole cloud; the inputs are as they
\* were.
C29_BottomsAligned ==
  bPc = "returned" =>
    /\ alignTargets = alignTargetsAtCall
    /\ Len(alignedTargets) = Len(alignTargetsAtCall)
    /\ \A idx \in 1..Len(alignedTargets) :
         /\ Len(alignedTargets[idx]) = Len(alignTargetsAtCall[idx])
         /\ \A k \in 0..(VertCount(alignedTargets[idx]) - 1) :
              /\ At(alignedTargets[idx], 3 * k) = At(alignTargetsAtCall[idx], 3 * k)
              /\ At(alignedTargets[idx], 3 * k + 2) = At(alignTargetsAtCall[idx], 3 * k + 2)
              /\ At(alignedTargets[idx], 3 * k + 1) - At(alignTargetsAtCall[idx], 3 * k + 1)
                   = At(alignedTargets[idx], 1) - At(alignTargetsAtCall[idx], 1)
         /\ \A other \in 1..Len(alignTargetsAtCall) :
              /\ MinHeight(alignedTargets[idx]) - MinHeight(alignTargetsAtCall[other])
                   < UnitsPerMicro
              /\ MinHeight(alignedTargets[idx]) - MinHeight(alignedTargets[other]) < UnitsPerMicro
         /\ \E other \in 1..Len(alignTargetsAtCall) :
              MinHeight(alignTargetsAtCall[other]) - MinHeight(alignedTargets[idx])
                < UnitsPerMicro

\* two clouds, the second of two points and a millionth higher than the
\* first: it comes back lowered
C29_Witness ==
  /\ bPc = "returned"
  /\ Len(alignedTargets) = 2
  /\ VertCount(alignTargetsAtCall[2]) = 2
  /\ MinHeight(alignTargetsAtCall[2]) - MinHeight(alignTargetsAtCall[1]) = UnitsPerMicro
  /\ alignedTargets[2] # alignTargetsAtCall[2]
  /\ alignedTargets[1] = alignTargetsAtCall[1]

----------------------------------------------------------------------------
(* Claims about the page of page.jsx *)

\* the model a morph target was made from: BlobOf puts the model's name in
\* the first x, which alignBottoms and doubleVertices leave alone
ModelOf(cloud) == At(cloud, 0)

\* C25, as stated: once loadModels is through, morphNamesRef.current[i] is the
\* name of the model whose positions are morphTargets[i], for every i, and the
\* name shown for the target a morph has reached is that target's name.
C25_AsStated ==
  lPc = "done" =>
    /\ Len(morphNames) = Len(morphTargets)
    /\ \A i \in 1..Len(morphTargets) : morphNames[i] = ModelOf(morphTargets[i])
    /\ shownName = ModelOf(morphTargets[currentTargetIndex + 1])

\* C26: with two or more targets a frame moves the morph index on by one
\* target, cyclically, exactly when it completes a transition, and otherwise
\* leaves it; the frame's delta is at most 100 ms, the duration at least
\* 2700 ms, and after the update morphTime is at least 0 and below the
\* duration.
C26_OneTargetPerTransition ==
  /\ [][(hPc = "run" /\ numTargetsTs >= 2) =>
          /\ lastDelta' <= 100
          /\ effectiveDuration' >= 2700
          /\ currentTargetIndexTs' =
               IF morphTimeTs + lastDelta' >= effectiveDuration'
               THEN (currentTargetIndexTs + 1) % numTargetsTs
               ELSE currentTargetIndexTs
          /\ morphTimeTs' >= 0
          /\ morphTimeTs' < effectiveDuration']_vars
  /\ [][(lPc = "done" /\ Len(morphTargets) >= 2) =>
          /\ currentTargetIndex' =
               IF completed' THEN (currentTargetIndex + 1) % Len(morphTargets)
               ELSE currentTargetIndex
          /\ completed' => morphTime >= morphDurationBase - 100
          /\ morphTime' >= 0
          /\ morphTime' < morphDurationBase]_vars

\* the page of part_001 with three targets, back at the first after a frame
\* that completed a transition with time to carry over
C26_Witness ==
  /\ hPc = "run"
  /\ numTargetsTs = 3
  /\ steppedTs
  /\ currentTargetIndexTs = 0
  /\ morphTimeTs > 1000

----------------------------------------------------------------------------
(* Claims about the palette render loop of page.tsx *)

\* C27, as stated: the render loop hands interpolatePalette only pairs of
\* palettes it returns for, never a second palette shorter than the first, and
\* the palette a frame sets has the length of the frame's first palette.
C27_AsStated ==
  /\ wPc # "thrown"
  /\ (wPc = "running" /\ startTime = "set") =>
       Len(blended) = Len(palettes[baseIndex + 1])

====
